---- MODULE Spec2Model ----
(***************************************************************************)
(* Model of the Python Sudoku engine bundled with the mensaplan generator  *)
(* (src/lib/sudoku/board.py and src/lib/sudoku/sudoku.py): the Board value *)
(* grid with its text format, the Sudoku candidate engine with its three   *)
(* deduction tiers, the puzzle generator and the difficulty classifier.    *)
(*                                                                         *)
(* A Board is a record [cellsize, boardsize, numbers], numbers being       *)
(* indexed [row][column] (0-based, as in the source).  A Sudoku is a       *)
(* record [cellsize, boardsize, possible_values, number_changes,           *)
(* difficulty].  The source keeps each candidate list in ascending order   *)
(* (range(1, n + 1), list.remove and one-element lists only), so a list is *)
(* modelled by the set of its elements and iterated in ascending order.    *)
(* cellsize is <<width, height>>: cellsize[1] is the source's cellsize[0]. *)
(***************************************************************************)
EXTENDS Integers, Sequences, FiniteSets, TLC

VARIABLES board, sudoku, pc, ret, entry, loc, text, nops

vars == <<board, sudoku, pc, ret, entry, loc, text, nops>>

----------------------------------------------------------------------------
(* Generic helpers                                                         *)

Min(a, b) == IF a < b THEN a ELSE b

\* v is computed, then F(v): TLC computes the elements of a tuple from left
\* to right, which keeps the steps of a loop in program order, each computed
\* from the finished result of the one before.
Then(F(_), v) == <<v, F(v)>>[2]

RECURSIVE FoldRange(_, _, _, _)

\* for k in lo..hi (ascending): s = Step(s, k); a range of several values is
\* cut into four consecutive parts of w values, done one after the other.
FoldRange(Step(_, _), s, lo, hi) ==
  IF lo > hi THEN s
  ELSE IF lo = hi THEN Step(s, lo)
  ELSE LET w  == (hi - lo + 4) \div 4
           a1 == FoldRange(Step, s, lo, lo + w - 1)
           a2 == FoldRange(Step, a1, lo + w, Min(hi, lo + 2 * w - 1))
           a3 == FoldRange(Step, a2, lo + 2 * w, Min(hi, lo + 3 * w - 1))
       IN  <<a1, a2, a3, FoldRange(Step, a3, lo + 3 * w, hi)>>[4]

\* Python's xrange(a, b) and xrange(a, b, step), as sequences.
XRange(a, b) == [k \in 1..(IF b > a THEN b - a ELSE 0) |-> a + k - 1]

XRangeStep(a, b, step) ==
  [k \in 1..(IF b > a THEN (b - a + step - 1) \div step ELSE 0) |-> a + (k - 1) * step]

\* A candidate list: the elements of S in ascending order.
SortedSeq(S) ==
  [k \in 1..Cardinality(S) |-> CHOOSE v \in S : Cardinality({u \in S : u <= v}) = k]

TheValue(S) == CHOOSE v \in S : TRUE

InSeq(q, e) == \E m \in 1..Len(q) : q[m] = e

\* The positions <<j, i>> of an n x n grid, row by row.
RowMajor(n) == [k \in 1..(n * n) |-> <<(k - 1) \div n, (k - 1) % n>>]

----------------------------------------------------------------------------
(* Characters and strings.  A character is its code point, a string is a   *)
(* sequence of characters, a file is the sequence of its lines (without    *)
(* the newline that ends each of them).                                    *)

\* ord(c) for the characters the source names or that name its words.
Ord(c) ==
  CASE c = " " -> 32 [] c = "#" -> 35 [] c = "+" -> 43 [] c = "-" -> 45
    [] c = "0" -> 48 [] c = "9" -> 57 [] c = "A" -> 65 [] c = "Z" -> 90
    [] c = "a" -> 97 [] c = "b" -> 98 [] c = "d" -> 100 [] c = "e" -> 101
    [] c = "i" -> 105 [] c = "o" -> 111 [] c = "r" -> 114 [] c = "s" -> 115
    [] c = "x" -> 120 [] c = "z" -> 122

Chars(letters) == [k \in 1..Len(letters) |-> Ord(letters[k])]

IsDigit(c) == Ord("0") <= c /\ c <= Ord("9")

\* The characters str.split() takes for white space.
IsSpace(c) == c = Ord(" ") \/ (9 <= c /\ c <= 13)

\* An upper() that leaves every character as it is.
UpperNone(c) == c

\* str.upper() and str.lower() on one character.
Upper(c) == IF Ord("a") <= c /\ c <= Ord("z") THEN c - (Ord("a") - Ord("A")) ELSE c

Lower(c) == IF Ord("A") <= c /\ c <= Ord("Z") THEN c + (Ord("a") - Ord("A")) ELSE c

RECURSIVE Str(_)

\* str(n) and "%d" % n.
Str(n) ==
  IF n < 0 THEN <<Ord("-")>> \o Str(0 - n)
  ELSE IF n < 10 THEN <<Ord("0") + n>>
  ELSE Str(n \div 10) \o <<Ord("0") + (n % 10)>>

\* int(s) is defined for an optional sign followed by digits.
Digits(s) == IF s # <<>> /\ s[1] \in {Ord("+"), Ord("-")} THEN Tail(s) ELSE s

IsInt(s) == Digits(s) # <<>> /\ \A k \in 1..Len(Digits(s)) : IsDigit(Digits(s)[k])

IntValue(s) ==
  LET magnitude == FoldRange(LAMBDA n, k : 10 * n + (Digits(s)[k] - Ord("0")),
                             0, 1, Len(Digits(s)))
  IN  IF s[1] = Ord("-") THEN 0 - magnitude ELSE magnitude

\* line.split(): the maximal runs of characters that are not white space.
Split(line) ==
  LET a == FoldRange(LAMBDA acc, k :
                       IF IsSpace(line[k])
                         THEN IF acc.cur = <<>> THEN acc
                              ELSE [items |-> Append(acc.items, acc.cur), cur |-> <<>>]
                         ELSE [acc EXCEPT !.cur = Append(@, line[k])],
                     [items |-> <<>>, cur |-> <<>>], 1, Len(line))
  IN  IF a.cur = <<>> THEN a.items ELSE Append(a.items, a.cur)

\* s.split(sep) for a one-character sep: the fields between the separators.
SplitOn(s, sep) ==
  LET a == FoldRange(LAMBDA acc, k :
                       IF s[k] = sep
                         THEN [items |-> Append(acc.items, acc.cur), cur |-> <<>>]
                         ELSE [acc EXCEPT !.cur = Append(@, s[k])],
                     [items |-> <<>>, cur |-> <<>>], 1, Len(s))
  IN  Append(a.items, a.cur)

\* "".join(items)
Join(items) == FoldRange(LAMBDA acc, k : acc \o items[k], <<>>, 1, Len(items))

----------------------------------------------------------------------------
(* Value (board.py)                                                        *)

\* Value(c).integer() for a one-character string.
ValueInteger(c) ==
  IF IsDigit(c) THEN c - Ord("0") ELSE Upper(c) - Ord("A") + 10

\* Value(v).string()
ValueString(v) == IF v < 10 THEN Str(v) ELSE <<Ord("A") + v - 10>>

----------------------------------------------------------------------------
(* Board (board.py)                                                        *)

BoardClear(b) ==
  [b EXCEPT !.numbers =
     [j \in 0..(b.boardsize - 1) |-> [i \in 0..(b.boardsize - 1) |-> 0]]]

\* Board(cellsize) with a pair: an empty board.  "None" is the source's None.
NewBoard(cs) ==
  BoardClear([filename |-> "None", cellsize |-> cs, boardsize |-> cs[1] * cs[2],
              numbers |-> <<>>])

BoardGetItem(b, row, column) == b.numbers[row][column]

\* Board.__setitem__: the board afterwards and whether ValueError was raised.
BoardSetItem(b, row, column, value) ==
  IF value > b.boardsize
    THEN [board |-> b, error |-> TRUE]
    ELSE [board |-> [b EXCEPT !.numbers[row][column] = value], error |-> FALSE]

\* Board.load_numbers once the size is set and the numbers are cleared: the
\* length is tested, and the numbers are copied.
LoadCleared(b, numbers) ==
  IF b.boardsize * b.boardsize # Len(numbers) \/ b.boardsize < 2
    THEN [board |-> b, error |-> TRUE]
    ELSE [board |-> [b EXCEPT !.numbers =
                       [j \in 0..(b.boardsize - 1) |->
                          [i \in 0..(b.boardsize - 1) |->
                             numbers[j * b.boardsize + i + 1]]]],
          error |-> FALSE]

\* Board.load_numbers: the board afterwards and whether ValueError was raised
\* (unpacking dimensions that are not a pair raises it first).
LoadNumbers(b, numbers, dimensions) ==
  IF Len(dimensions) # 2
    THEN [board |-> b, error |-> TRUE]
    ELSE LoadCleared(BoardClear([b EXCEPT !.boardsize = dimensions[1] * dimensions[2],
                                          !.cellsize = <<dimensions[1], dimensions[2]>>]),
                     numbers)

BoardsizeWord == Chars(<<"b", "o", "a", "r", "d", "s", "i", "z", "e">>)

\* The "# boardsize W x H" line: the dimensions are the integers between
\* the x of what follows the word, and ValueError if one is not an integer.
LoadDimensions(acc, parts) ==
  IF \A k \in 1..Len(parts) : IsInt(parts[k])
    THEN [acc EXCEPT !.declared = TRUE,
                     !.dimensions = [k \in 1..Len(parts) |-> IntValue(parts[k])]]
    ELSE [acc EXCEPT !.error = TRUE]

\* One line of Board.load, split into items: a comment line (a boardsize one
\* sets the dimensions), or a line of one-character values added to the array.
LoadItems(acc, items) ==
  IF acc.error THEN acc
  ELSE IF items = <<>> \/ items[1][1] = Ord("#")
    THEN IF Len(items) >= 4
              /\ [k \in 1..Len(items[2]) |-> Lower(items[2][k])] = BoardsizeWord
           THEN LoadDimensions(acc, SplitOn(Join(SubSeq(items, 3, Len(items))), Ord("x")))
           ELSE acc
    ELSE IF \A k \in 1..Len(items) : Len(items[k]) = 1
           THEN [acc EXCEPT !.array =
                    @ \o [k \in 1..Len(items) |-> ValueInteger(items[k][1])]]
           ELSE [acc EXCEPT !.error = TRUE]

LoadLine(acc, line) == Then(LAMBDA items : LoadItems(acc, items), Split(line))

\* max(array) and int(m ** (1 / 2.0)) for m >= 0.
Max(array) == CHOOSE m \in {array[k] : k \in 1..Len(array)} :
                \A k \in 1..Len(array) : array[k] <= m

ISqrt(m) == CHOOSE r \in 0..m : r * r <= m /\ m < (r + 1) * (r + 1)

\* The end of Board.load, read being what the lines gave: without declared
\* dimensions the region is a square of side int(max(array) ** (1 / 2.0)).
LoadArray(b, read) ==
  IF read.error THEN [board |-> b, error |-> TRUE]
  ELSE IF read.declared THEN LoadNumbers(b, read.array, read.dimensions)
  ELSE IF read.array = <<>> \/ Max(read.array) < 0
    THEN [board |-> b, error |-> TRUE]
  ELSE IF ISqrt(Max(read.array)) ^ 4 # Len(read.array)
    THEN [board |-> b, error |-> TRUE]
  ELSE LoadNumbers(b, read.array, <<ISqrt(Max(read.array)), ISqrt(Max(read.array))>>)

\* Board.load: the board afterwards and whether ValueError was raised.
Load(b, filename, lines) ==
  Then(LAMBDA read : LoadArray([b EXCEPT !.filename = filename], read),
       FoldRange(LAMBDA acc, k : LoadLine(acc, lines[k]),
                 [array |-> <<>>, declared |-> FALSE, dimensions |-> <<>>,
                  error |-> FALSE],
                 1, Len(lines)))

\* "%3c" % s for a one-character string s.
Format3c(s) == <<Ord(" "), Ord(" ")>> \o s

\* The line Board.save writes for row j.
SaveRow(b, j) ==
  FoldRange(LAMBDA line, k :
              line \o Format3c(ValueString(b.numbers[j][k - 1]))
                   \o (IF k - 1 # b.boardsize - 1 /\ k % b.cellsize[1] = 0
                         THEN <<Ord(" "), Ord(" ")>> ELSE <<>>),
            <<>>, 1, b.boardsize)

\* Board.save: the lines of the file written (numbers from 0 to boardsize).
Save(b) ==
  FoldRange(LAMBDA lines, k :
              Append(lines, SaveRow(b, k - 1))
                \o (IF k % b.cellsize[2] = 0 /\ k - 1 # b.boardsize - 1
                      THEN <<<<>>>> ELSE <<>>),
            <<Chars(<<"#", " ", "b", "o", "a", "r", "d", "s", "i", "z", "e", " ">>)
                \o Str(b.cellsize[1]) \o Chars(<<" ", "x", " ">>) \o Str(b.cellsize[2])>>,
            1, b.boardsize)

----------------------------------------------------------------------------
(* Sudoku: helpers and value initialization (sudoku.py)                    *)

\* self._possible_values[p[0]][p[1]] for a position p = <<j, i>>.
Candidates(s, p) == s.possible_values[p[1]][p[2]]

GetItem(s, row, column) ==
  IF Cardinality(s.possible_values[row][column]) = 1
    THEN TheValue(s.possible_values[row][column])
    ELSE 0

\* A re-initialization that reaches every position.
InitializeEveryPosition(s, j, i) ==
  [s EXCEPT !.possible_values =
     [v \in 0..(s.boardsize - 1) |-> [h \in 0..(s.boardsize - 1) |-> 1..s.boardsize]]]

InitializePossibleValues(s, j, i) ==
  [s EXCEPT !.possible_values[j][i] = 1..s.boardsize]

InitializeValues(s) ==
  [s EXCEPT !.possible_values =
     [j \in 0..(s.boardsize - 1) |-> [i \in 0..(s.boardsize - 1) |-> 1..s.boardsize]]]

RegionHorizontalLimits(s, j, i) ==
  LET hini == (i \div s.cellsize[1]) * s.cellsize[1]
  IN  <<hini, hini + s.cellsize[1]>>

RegionVerticalLimits(s, j, i) ==
  LET vini == (j \div s.cellsize[2]) * s.cellsize[2]
  IN  <<vini, vini + s.cellsize[2]>>

ClearChanges(s) == [s EXCEPT !.number_changes = 0]

AddChange(s) == [s EXCEPT !.number_changes = @ + 1]

RemoveChange(s) == [s EXCEPT !.number_changes = @ - 1]

Changes(s) == s.number_changes

\* The positions of row j, of column i, and of the region of (j, i) with the
\* rows outermost, each in the order in which the source loops over them.
RowCells(s, j) == [k \in 1..s.boardsize |-> <<j, k - 1>>]

ColumnCells(s, i) == [k \in 1..s.boardsize |-> <<k - 1, i>>]

RegionCells(s, j, i) ==
  LET hl == RegionHorizontalLimits(s, j, i)
      vl == RegionVerticalLimits(s, j, i)
      w  == hl[2] - hl[1]
      h  == vl[2] - vl[1]
  IN  [k \in 1..(w * h) |-> <<vl[1] + ((k - 1) \div w), hl[1] + ((k - 1) % w)>>]

----------------------------------------------------------------------------
(* Assignment and propagation.  __setitem__, _value_substraction and       *)
(* _propagate_value_substraction call each other depth first.  The model   *)
(* keeps the call stack explicitly: a machine is the engine with the stack *)
(* of the _propagate_value_substraction calls in progress, each frame      *)
(* holding its arguments and the index k of the next position it visits.   *)

\* The k-th position visited by _propagate_value_substraction(j, i, value):
\* the row, then the column, then the region with the rows outermost.
PropagationTarget(s, j, i, k) ==
  IF k <= s.boardsize THEN <<j, k - 1>>
  ELSE IF k <= 2 * s.boardsize THEN <<k - s.boardsize - 1, i>>
  ELSE RegionCells(s, j, i)[k - 2 * s.boardsize]

\* A propagation that ends after the row and the column.
PropagationLengthNoRegion(s) == 2 * s.boardsize

PropagationLength(s) == 2 * s.boardsize + s.cellsize[1] * s.cellsize[2]

\* __setitem__ with a value, up to its call of _propagate_value_substraction.
Assign(m, row, column, value) ==
  [sudoku |-> AddChange([m.sudoku EXCEPT !.possible_values[row][column] = {value}]),
   stack  |-> Append(m.stack, [j |-> row, i |-> column, value |-> value, k |-> 1])]

\* _value_substraction, up to the end of the call or to the propagation of
\* the assignment it makes.
Substract(m, j, i, value) ==
  IF value \in m.sudoku.possible_values[j][i]
    THEN LET m1 == [m EXCEPT !.sudoku.possible_values[j][i] = @ \ {value}]
         IN  IF Cardinality(m1.sudoku.possible_values[j][i]) = 1
               THEN Assign(m1, j, i, TheValue(m1.sudoku.possible_values[j][i]))
               ELSE m1
    ELSE m

\* One iteration of the innermost propagation in progress, or its return.
PropagateStep(m) ==
  LET top == Len(m.stack)
      f   == m.stack[top]
      p   == PropagationTarget(m.sudoku, f.j, f.i, f.k)
  IN  IF f.k > PropagationLength(m.sudoku)
        THEN [m EXCEPT !.stack = SubSeq(m.stack, 1, top - 1)]
        ELSE IF p = <<f.j, f.i>>
          THEN [m EXCEPT !.stack[top].k = f.k + 1]
          ELSE Substract([m EXCEPT !.stack[top].k = f.k + 1], p[1], p[2], f.value)

RECURSIVE Run(_, _)

\* PropagateStep up to 4^e times, stopping when no call is in progress.
Run(m, e) ==
  IF m.stack = <<>> THEN m
  ELSE IF e = 0 THEN PropagateStep(m)
  ELSE LET a1 == Run(m, e - 1)
           a2 == Run(a1, e - 1)
           a3 == Run(a2, e - 1)
       IN  <<a1, a2, a3, Run(a3, e - 1)>>[4]

RECURSIVE Return(_, _)

\* The calls in progress run to their end: PropagateStep until the stack is
\* empty (4^e steps, then 4^(e + 1), and so on).
Return(m, e) ==
  IF m.stack = <<>> THEN m.sudoku ELSE Return(Run(m, e), e + 1)

Call(s) == [sudoku |-> s, stack |-> <<>>]

ValueSubstraction(s, j, i, value) == Return(Substract(Call(s), j, i, value), 2)

SetItem(s, row, column, value) ==
  IF value # 0
    THEN Return(Assign(Call(s), row, column, value), 2)
    ELSE IF GetItem(s, row, column) # 0
           THEN RemoveChange(InitializePossibleValues(s, row, column))
           ELSE s

----------------------------------------------------------------------------
(* Conversion from and to Board                                            *)

FromBoard(s, b) ==
  LET order == RowMajor(b.boardsize)
  IN  FoldRange(LAMBDA t, k :
                  IF BoardGetItem(b, order[k][1], order[k][2]) # 0
                    THEN SetItem(t, order[k][1], order[k][2],
                                 BoardGetItem(b, order[k][1], order[k][2]))
                    ELSE t,
                InitializeValues([s EXCEPT !.boardsize = b.boardsize,
                                           !.cellsize = b.cellsize]),
                1, Len(order))

\* Sudoku.__init__
NewSudoku(b, difficulty) ==
  FromBoard([cellsize |-> b.cellsize, boardsize |-> b.boardsize,
             possible_values |-> <<>>, number_changes |-> 0,
             difficulty |-> difficulty], b)

ToBoard(s) ==
  [NewBoard(s.cellsize) EXCEPT
     !.numbers = [j \in 0..(s.boardsize - 1) |->
                    [i \in 0..(s.boardsize - 1) |-> GetItem(s, j, i)]]]

----------------------------------------------------------------------------
(* finished, solvable, are_holes                                           *)

\* A finished() that would also take a position left without candidates for
\* a solved one.
FinishedWithHoles(s) ==
  \A j, i \in 0..(s.boardsize - 1) : Cardinality(s.possible_values[j][i]) <= 1

Finished(s) ==
  \A j, i \in 0..(s.boardsize - 1) : Cardinality(s.possible_values[j][i]) = 1

\* No value is met twice among the solved positions of cells.
NoRepeat(s, cells) ==
  \A a, c \in 1..Len(cells) :
     (a < c /\ Cardinality(Candidates(s, cells[a])) = 1
            /\ Cardinality(Candidates(s, cells[c])) = 1)
       => Candidates(s, cells[a]) # Candidates(s, cells[c])

SolvableHorizontal(s, j) == NoRepeat(s, RowCells(s, j))

SolvableVertical(s, i) == NoRepeat(s, ColumnCells(s, i))

SolvableRegion(s, j, i) == NoRepeat(s, RegionCells(s, j, i))

\* The two region loops start at cellsize, not at 0 (sudoku.py:318-320).
Solvable(s) ==
  LET js == XRangeStep(s.cellsize[2], s.boardsize, s.cellsize[2])
      is == XRangeStep(s.cellsize[1], s.boardsize, s.cellsize[1])
  IN  /\ \A j \in 0..(s.boardsize - 1) : SolvableHorizontal(s, j)
      /\ \A i \in 0..(s.boardsize - 1) : SolvableVertical(s, i)
      /\ \A a \in 1..Len(js) : \A c \in 1..Len(is) : SolvableRegion(s, js[a], is[c])

AreHoles(s) ==
  \E j, i \in 0..(s.boardsize - 1) : s.possible_values[j][i] = {}

----------------------------------------------------------------------------
(* Tier pass 1: _calculate_uniq_values                                     *)

UniqHorizontalAppearance(s, j, i, value) ==
  /\ value \in s.possible_values[j][i]
  /\ \A h \in 0..(s.boardsize - 1) :
       h # i => value \notin s.possible_values[j][h]

UniqVerticalAppearance(s, j, i, value) ==
  /\ value \in s.possible_values[j][i]
  /\ \A v \in 0..(s.boardsize - 1) :
       v # j => value \notin s.possible_values[v][i]

UniqRegionAppearance(s, j, i, value) ==
  /\ value \in s.possible_values[j][i]
  /\ \A k \in 1..Len(RegionCells(s, j, i)) :
       LET p == RegionCells(s, j, i)[k]
       IN  (p[2] # i \/ p[1] # j) => value \notin Candidates(s, p)

\* for value in list: if appearance(value): self[j, i] = value; break
\* (the first qualifying value in list order is assigned, if there is one).
UniqHorizontalValue(s, j, i) ==
  LET found == {v \in s.possible_values[j][i] : UniqHorizontalAppearance(s, j, i, v)}
  IN  IF found = {} THEN s
      ELSE SetItem(s, j, i, CHOOSE v \in found : \A u \in found : v <= u)

UniqVerticalValue(s, j, i) ==
  LET found == {v \in s.possible_values[j][i] : UniqVerticalAppearance(s, j, i, v)}
  IN  IF found = {} THEN s
      ELSE SetItem(s, j, i, CHOOSE v \in found : \A u \in found : v <= u)

UniqRegionValue(s, j, i) ==
  LET found == {v \in s.possible_values[j][i] : UniqRegionAppearance(s, j, i, v)}
  IN  IF found = {} THEN s
      ELSE SetItem(s, j, i, CHOOSE v \in found : \A u \in found : v <= u)

\* One position of the sweep (sudoku.py:439-444): a solved one is skipped, any
\* other runs the row, the column and the region search in turn.
UniqPosition(s, j, i) ==
  IF Cardinality(s.possible_values[j][i]) = 1
    THEN s
    ELSE Then(LAMBDA s2 : UniqRegionValue(s2, j, i),
              Then(LAMBDA s1 : UniqVerticalValue(s1, j, i),
                   UniqHorizontalValue(s, j, i)))

CalculateUniqValues(s) ==
  LET order == RowMajor(s.boardsize)
  IN  FoldRange(LAMBDA t, k : UniqPosition(t, order[k][1], order[k][2]),
                s, 1, Len(order))

----------------------------------------------------------------------------
(* Tier pass 2: _remove_deductable_values                                  *)

\* check of remove_horizontal_deductible_values: value is possible in no
\* other row of the region.
CheckHorizontal(s, j, i, value) ==
  \A k \in 1..Len(RegionCells(s, j, i)) :
     LET p == RegionCells(s, j, i)[k]
     IN  p[1] # j => value \notin Candidates(s, p)

\* remove: columns xrange(hini) and xrange(hmax + 1, boardsize) of row j.
RemoveHorizontal(s, j, i, value) ==
  LET hl      == RegionHorizontalLimits(s, j, i)
      columns == XRange(0, hl[1]) \o XRange(hl[2] + 1, s.boardsize)
  IN  FoldRange(LAMBDA t, k : ValueSubstraction(t, j, columns[k], value),
                s, 1, Len(columns))

\* check of remove_vertical_deductible_values: value is possible in no
\* other column of the region.
CheckVertical(s, j, i, value) ==
  \A k \in 1..Len(RegionCells(s, j, i)) :
     LET p == RegionCells(s, j, i)[k]
     IN  p[2] # i => value \notin Candidates(s, p)

\* remove: rows xrange(vini) and xrange(vmax + 1, boardsize) of column i.
RemoveVertical(s, j, i, value) ==
  LET vl   == RegionVerticalLimits(s, j, i)
      rows == XRange(0, vl[1]) \o XRange(vl[2] + 1, s.boardsize)
  IN  FoldRange(LAMBDA t, k : ValueSubstraction(t, rows[k], i, value),
                s, 1, Len(rows))

RECURSIVE DeductibleHorizontalLoop(_, _, _, _)
RECURSIVE DeductibleVerticalLoop(_, _, _, _)

\* for value in self._possible_values[j][i]: the list iterator reads index k
\* of the list as it is when the step is taken; the removals of earlier steps
\* may have shortened the list of (j, i) in the meantime.
DeductibleHorizontalLoop(s, j, i, k) ==
  LET lst == SortedSeq(s.possible_values[j][i])
  IN  IF k > Len(lst) THEN s
      ELSE DeductibleHorizontalLoop(
             IF CheckHorizontal(s, j, i, lst[k])
               THEN RemoveHorizontal(s, j, i, lst[k]) ELSE s,
             j, i, k + 1)

DeductibleVerticalLoop(s, j, i, k) ==
  LET lst == SortedSeq(s.possible_values[j][i])
  IN  IF k > Len(lst) THEN s
      ELSE DeductibleVerticalLoop(
             IF CheckVertical(s, j, i, lst[k])
               THEN RemoveVertical(s, j, i, lst[k]) ELSE s,
             j, i, k + 1)

RemoveHorizontalDeductibleValues(s, j, i) ==
  IF Cardinality(s.possible_values[j][i]) <= 1 THEN s
  ELSE DeductibleHorizontalLoop(s, j, i, 1)

RemoveVerticalDeductibleValues(s, j, i) ==
  IF Cardinality(s.possible_values[j][i]) <= 1 THEN s
  ELSE DeductibleVerticalLoop(s, j, i, 1)

RemoveDeductableValues(s) ==
  LET order == RowMajor(s.boardsize)
  IN  FoldRange(LAMBDA t, k :
                  Then(LAMBDA s1 : RemoveVerticalDeductibleValues(
                                     s1, order[k][1], order[k][2]),
                       RemoveHorizontalDeductibleValues(t, order[k][1], order[k][2])),
                s, 1, Len(order))

----------------------------------------------------------------------------
(* Tier pass 3: _unmatched_candidate_deletion                              *)

RECURSIVE Combination(_, _)
RECURSIVE CombinationFrom(_, _, _)

\* combination(n, r): the r-element sub-lists of n, in the generator's order.
Combination(n, r) ==
  IF r = 1 THEN [k \in 1..Len(n) |-> <<n[k]>>]
  ELSE CombinationFrom(n, r, 1)

CombinationFrom(n, r, i) ==
  IF i > Len(n) - r + 1 THEN <<>>
  ELSE LET rest == Combination(SubSeq(n, i + 1, Len(n)), r - 1)
       IN  [k \in 1..Len(rest) |-> <<n[i]>> \o rest[k]] \o CombinationFrom(n, r, i + 1)

\* A test that wants every member to hold fewer candidates than the
\* combination has positions.
PossibleStrict(s, combination) ==
  \A k \in 1..Len(combination) :
     Cardinality(Candidates(s, combination[k])) < Len(combination)

Possible(s, combination) ==
  \A k \in 1..Len(combination) :
     ~ (Cardinality(Candidates(s, combination[k])) > Len(combination))

Addition(s, combination) ==
  FoldRange(LAMBDA acc, k : acc \o SortedSeq(Candidates(s, combination[k])),
            <<>>, 1, Len(combination))

\* A uniq that keeps no more distinct values than the combination could have
\* positions, so that any two cells pass for a naked pair.
UniqFirstTwo(q) ==
  LET u == FoldRange(LAMBDA acc, k : IF InSeq(acc, q[k]) THEN acc ELSE Append(acc, q[k]),
                     <<>>, 1, Len(q))
  IN  IF Len(u) > 2 THEN SubSeq(u, 1, 2) ELSE u

Uniq(q) ==
  FoldRange(LAMBDA acc, k : IF InSeq(acc, q[k]) THEN acc ELSE Append(acc, q[k]),
            <<>>, 1, Len(q))

\* for value in values: self._value_substraction(j, i, value)
SubstractValues(s, p, values) ==
  FoldRange(LAMBDA t, k : ValueSubstraction(t, p[1], p[2], values[k]),
            s, 1, Len(values))

\* remove(combination, values) over the cells of one row, column or region.
RemoveOthers(s, unit, combination, values) ==
  FoldRange(LAMBDA t, k : IF InSeq(combination, unit[k]) THEN t
                          ELSE SubstractValues(t, unit[k], values),
            s, 1, Len(unit))

UnsolvedPositions(s, unit) ==
  SelectSeq(unit, LAMBDA p : Cardinality(Candidates(s, p)) > 1)

\* The body of the three searches for one combination c; guard tells whether
\* the search tests possible(c) first.
CombinationBody(s, unit, c, guard) ==
  Then(LAMBDA values :
         IF (guard => Possible(s, c)) /\ Len(values) = Len(c)
           THEN RemoveOthers(s, unit, c, values) ELSE s,
       Uniq(Addition(s, c)))

\* for c in combination(unsolved, x)
CombinationLoop(s, unit, unsolved, x, guard) ==
  LET combos == Combination(unsolved, x)
  IN  FoldRange(LAMBDA t, k : CombinationBody(t, unit, combos[k], guard),
                s, 1, Len(combos))

\* unsolved = unsolved_positions(); for x in xrange(len(unsolved) - 1, 1, -1)
UnitDeletion(s, unit, guard) ==
  LET unsolved == UnsolvedPositions(s, unit)
  IN  FoldRange(LAMBDA t, m : CombinationLoop(t, unit, unsolved, Len(unsolved) - m, guard),
                s, 1, Len(unsolved) - 2)

Horizontal(s, j) == UnitDeletion(s, RowCells(s, j), TRUE)

\* vertical(i) does not test possible(c) (sudoku.py:657-660).
Vertical(s, i) == UnitDeletion(s, ColumnCells(s, i), FALSE)

Region(s, j, i) == UnitDeletion(s, RegionCells(s, j, i), TRUE)

UnmatchedCandidateDeletion(s) ==
  LET js == XRangeStep(0, s.boardsize, s.cellsize[2])
      is == XRangeStep(0, s.boardsize, s.cellsize[1])
  IN  Then(LAMBDA s2 :
             FoldRange(LAMBDA t, k : Region(t, js[((k - 1) \div Len(is)) + 1],
                                               is[((k - 1) % Len(is)) + 1]),
                       s2, 1, Len(js) * Len(is)),
           Then(LAMBDA s1 : FoldRange(LAMBDA t, k : Vertical(t, k - 1),
                                      s1, 1, s.boardsize),
                FoldRange(LAMBDA t, k : Horizontal(t, k - 1), s, 1, s.boardsize)))

----------------------------------------------------------------------------
(* The tiers, solve and difficulty                                         *)

\* The tiers tried from the strongest to the weakest.
StrongestFirst == <<"hard", "normal", "easy">>

\* The order in which difficulty() tries the tiers (sudoku.py:869).
Difficulties == <<"easy", "normal", "hard">>

\* A table of passes that is not cumulative: the weakest tier has passes that
\* the middle one lacks.
TierPassesNotCumulative(difficulty) ==
  IF difficulty = "easy" THEN <<"uniq", "deductable">>
  ELSE IF difficulty = "normal" THEN <<>>
  ELSE <<"uniq", "deductable", "unmatched">>

\* self._algorithms: the passes of each tier (sudoku.py:49-55).
TierPasses(difficulty) ==
  IF difficulty = "easy" THEN <<>>
  ELSE IF difficulty = "normal" THEN <<"uniq", "deductable">>
  ELSE <<"uniq", "deductable", "unmatched">>

RunPass(s, name) ==
  IF name = "uniq" THEN CalculateUniqValues(s)
  ELSE IF name = "deductable" THEN RemoveDeductableValues(s)
  ELSE UnmatchedCandidateDeletion(s)

\* __algorithms: for algol in self._algorithms[self._difficulty]: algol()
Algorithms(s) ==
  LET passes == TierPasses(s.difficulty)
  IN  FoldRange(LAMBDA t, k : RunPass(t, passes[k]), s, 1, Len(passes))

RECURSIVE SolveLoop(_, _)

\* while changes != self._changes(): changes = self._changes(); algorithms
SolveLoop(s, changes) ==
  IF changes = Changes(s) THEN s
  ELSE SolveLoop(Algorithms(s), Changes(s))

\* A solve() without the solvable() check of line 716.
SolveUnchecked(s) ==
  Then(LAMBDA s1 : [sudoku |-> s1, result |-> Finished(s1)], SolveLoop(s, -1))

\* Sudoku.solve: the engine afterwards and the value returned.
Solve(s) ==
  IF ~ Solvable(s)
    THEN [sudoku |-> s, result |-> FALSE]
    ELSE Then(LAMBDA s1 : [sudoku |-> s1, result |-> Finished(s1)],
              SolveLoop(s, -1))

\* difficulty(board): for d in difficulties: if Sudoku(board, d).solve():
\* return d; "None" stands for the source's None.
Difficulty(b) ==
  FoldRange(LAMBDA found, k :
              IF found # "None" THEN found
              ELSE IF Solve(NewSudoku(b, Difficulties[k])).result
                     THEN Difficulties[k] ELSE "None",
            "None", 1, Len(Difficulties))

\* A turn of give_numbers' loop that also counts a position already solved.
GiveNumbersStepAnywhere(g, solved, j, i) ==
  IF ~ (g.how_many > 0 /\ ~ Finished(g.sudoku)) THEN g
  ELSE [sudoku   |-> [g.sudoku EXCEPT !.possible_values[j][i] =
                                         {BoardGetItem(solved, j, i)}],
        how_many |-> g.how_many - 1]

\* One turn of give_numbers' loop with the random position (j, i):
\* while how_many > 0 and not self.finished(): ...
GiveNumbersStep(g, solved, j, i) ==
  IF ~ (g.how_many > 0 /\ ~ Finished(g.sudoku)) THEN g
  ELSE IF Cardinality(g.sudoku.possible_values[j][i]) = 1 THEN g
  ELSE [sudoku   |-> [g.sudoku EXCEPT !.possible_values[j][i] =
                                         {BoardGetItem(solved, j, i)}],
        how_many |-> g.how_many - 1]

\* give_numbers has returned.
GiveNumbersDone(g) == ~ (g.how_many > 0 /\ ~ Finished(g.sudoku))

----------------------------------------------------------------------------
(* The solver: grids are edited, engines are seeded from them, given       *)
(* numbers, checked, solved and classified.                                *)

\* Grids the runs start from: an empty and a full 4x4 grid, and 6x6 puzzles
\* (regions 2 wide, 3 high) that the tiers tell apart.
Grids ==
  { NewBoard(<<2, 2>>),
    LoadNumbers(NewBoard(<<2, 2>>),
                <<1, 2, 3, 4,  3, 4, 1, 2,  2, 1, 4, 3,  4, 3, 2, 1>>,
                <<2, 2>>).board,
    LoadNumbers(NewBoard(<<2, 2>>),
                <<1, 0, 0, 0,  0, 0, 1, 0,  0, 0, 4, 0,  0, 3, 0, 0>>,
                <<2, 2>>).board,
    LoadNumbers(NewBoard(<<2, 3>>),
                <<0, 3, 0, 0, 0, 1,  2, 0, 0, 0, 0, 5,  6, 0, 0, 0, 0, 0,
                  1, 4, 0, 3, 0, 0,  0, 0, 2, 4, 0, 0,  0, 0, 0, 0, 0, 0>>,
                <<2, 3>>).board,
    LoadNumbers(NewBoard(<<2, 3>>),
                <<0, 0, 4, 0, 0, 0,  0, 1, 0, 0, 4, 3,  0, 0, 0, 0, 0, 2,
                  0, 0, 3, 6, 0, 0,  5, 0, 0, 0, 0, 0,  3, 6, 0, 5, 0, 0>>,
                <<2, 3>>).board,
    LoadNumbers(NewBoard(<<2, 3>>),
                <<4, 0, 3, 0, 1, 0,  0, 0, 0, 0, 0, 6,  0, 0, 5, 0, 0, 0,
                  0, 0, 0, 0, 6, 0,  5, 3, 0, 0, 0, 0,  0, 0, 0, 0, 0, 0>>,
                <<2, 3>>).board,
    LoadNumbers(NewBoard(<<2, 3>>),
                <<0, 0, 2, 0, 0, 4,  3, 0, 0, 0, 0, 0,  5, 0, 0, 0, 0, 0,
                  0, 0, 0, 0, 0, 0,  0, 3, 0, 0, 0, 0,  0, 0, 0, 0, 0, 0>>,
                <<2, 3>>).board }

\* Bounds of the runs.
MaxEdits == 1

MaxGive == 1

MaxReruns == 2

\* The cells that are edited and that give_numbers draws.
EditCells == {<<0, 0>>, <<0, 1>>}

\* The values written into a cell of b; the last one is out of range.
EditValues(b) == {0, 1, b.boardsize, b.boardsize + 1}

Init ==
  /\ board \in Grids
  /\ sudoku = "None"
  /\ pc = "grid"
  /\ ret = "None"
  /\ entry = "None"
  /\ loc = "None"
  /\ text = <<>>
  /\ nops = 0

\* board[j, i] = value
SetCell ==
  /\ pc = "grid"
  /\ nops < MaxEdits
  /\ \E p \in EditCells : \E value \in EditValues(board) :
       LET r == BoardSetItem(board, p[1], p[2], value)
       IN  /\ board' = r.board
           /\ ret' = IF r.error THEN "ValueError" ELSE "None"
  /\ nops' = nops + 1
  /\ UNCHANGED <<sudoku, pc, entry, loc, text>>

\* sudoku = Sudoku(board, difficulty)
Seed ==
  /\ pc = "grid"
  /\ \E d \in {Difficulties[k] : k \in 1..Len(Difficulties)} :
       sudoku' = NewSudoku(board, d)
  /\ pc' = "seeded"
  /\ ret' = "None"
  /\ UNCHANGED <<board, entry, loc, text, nops>>

\* sudoku.give_numbers(board, how_many) is called: its loop is entered, or
\* left at once.
GiveNumbers ==
  /\ pc = "seeded"
  /\ \E h \in 1..MaxGive :
       /\ loc' = [how_many |-> h]
       /\ pc' = IF GiveNumbersDone([sudoku |-> sudoku, how_many |-> h])
                  THEN "given" ELSE "giving"
  /\ UNCHANGED <<board, sudoku, ret, entry, text, nops>>

\* One turn of its loop, with a random position.
GiveNumber ==
  /\ pc = "giving"
  /\ \E p \in EditCells :
       LET g == GiveNumbersStep([sudoku |-> sudoku, how_many |-> loc.how_many],
                                board, p[1], p[2])
       IN  /\ sudoku' = g.sudoku
           /\ loc' = [how_many |-> g.how_many]
           /\ pc' = IF GiveNumbersDone(g) THEN "given" ELSE "giving"
  /\ UNCHANGED <<board, ret, entry, text, nops>>

\* ret = sudoku.solvable()
SolvableCall ==
  /\ pc \in {"seeded", "given"}
  /\ ret' = Solvable(sudoku)
  /\ entry' = sudoku
  /\ pc' = "solvable"
  /\ UNCHANGED <<board, sudoku, loc, text, nops>>

\* ret = sudoku.solve(); entry is the engine at the call, loc the engine at
\* the return and whether the solvable() check at line 716 was passed.
SolveCall ==
  /\ pc \in {"seeded", "given"}
  /\ \E r \in {Solve(sudoku)} :
       /\ sudoku' = r.sudoku
       /\ ret' = r.result
       /\ loc' = [exit |-> r.sudoku, checked |-> Solvable(sudoku), reruns |-> 0]
  /\ entry' = sudoku
  /\ pc' = "solved"
  /\ UNCHANGED <<board, text, nops>>

\* The tier's passes are run once more on an engine that solve() has left
\* after its solvable() check.
Rerun ==
  /\ pc \in {"solved", "passes"}
  /\ loc.checked
  /\ loc.reruns < MaxReruns
  /\ sudoku' = Algorithms(sudoku)
  /\ loc' = [loc EXCEPT !.reruns = @ + 1]
  /\ pc' = "passes"
  /\ UNCHANGED <<board, ret, entry, text, nops>>

\* ret = difficulty(board); entry is the grid at the call.
Classify ==
  /\ pc = "grid"
  /\ ret' = Difficulty(board)
  /\ entry' = board
  /\ pc' = "difficulty"
  /\ UNCHANGED <<board, sudoku, loc, text, nops>>

Next ==
  \/ SetCell
  \/ Seed
  \/ GiveNumbers
  \/ GiveNumber
  \/ SolvableCall
  \/ SolveCall
  \/ Rerun
  \/ Classify

Spec == Init /\ [][Next]_vars

----------------------------------------------------------------------------
(* Grid files: grids are edited and saved, files are written by hand, and  *)
(* an existing grid loads the file.                                        *)

MaxFileEdits == 1

\* The region sizes of the grids; the last one gives a board of 42 x 42.
FileCellSizes == {<<2, 1>>, <<2, 2>>, <<6, 7>>}

FileCells == {<<0, 0>>, <<1, 1>>}

\* The values written into a cell of b; the last one is out of range.
FileValues(b) == {0, 1, b.boardsize, b.boardsize + 1}

\* The files written by hand hold TokenCounts tokens, the first one of
\* FirstTokens (made from TokenValues) and the others 0; Directives are the
\* region sizes declared (<<>>: no boardsize line).
TokenCounts == {1, 15, 16, 81}

TokenValues == {0, 3, 4, 9}

Directives == {<<>>, <<2, 2>>, <<2, 1>>}

\* A file of tokens: the boardsize line if a region size is declared, then
\* the tokens in rows, separated by one space.
TokenFile(directive, tokens) ==
  LET row  == IF tokens = <<>> THEN 1 ELSE ISqrt(Len(tokens))
      rows == (Len(tokens) + row - 1) \div row
  IN  (IF directive = <<>> THEN <<>>
       ELSE <<Chars(<<"#", " ", "b", "o", "a", "r", "d", "s", "i", "z", "e", " ">>)
                \o Str(directive[1]) \o Chars(<<" ", "x", " ">>) \o Str(directive[2])>>)
      \o [r \in 1..rows |->
            FoldRange(LAMBDA line, k :
                        line \o (IF k = (r - 1) * row + 1 THEN <<>> ELSE <<Ord(" ")>>)
                             \o tokens[k],
                      <<>>, (r - 1) * row + 1, Min(Len(tokens), r * row))]

InitFile ==
  /\ board \in {NewBoard(cs) : cs \in FileCellSizes}
  /\ sudoku = "None"
  /\ pc = "grid"
  /\ ret = "None"
  /\ entry = "None"
  /\ loc = "None"
  /\ text = <<>>
  /\ nops = 0

\* board[j, i] = value
FileSetCell ==
  /\ pc = "grid"
  /\ nops < MaxFileEdits
  /\ \E p \in FileCells : \E value \in FileValues(board) :
       \E r \in {BoardSetItem(board, p[1], p[2], value)} :
          /\ board' = r.board
          /\ ret' = IF r.error THEN "ValueError" ELSE "None"
  /\ nops' = nops + 1
  /\ UNCHANGED <<sudoku, pc, entry, loc, text>>

\* board.save(filename); loc is the grid saved.
SaveCall ==
  /\ pc = "grid"
  /\ text' = Save(board)
  /\ loc' = [grid |-> board]
  /\ pc' = "saved"
  /\ ret' = "None"
  /\ UNCHANGED <<board, sudoku, entry, nops>>

\* The first token of a file written by hand: the character of a value, the
\* two digits of a number, or a character that is no digit and no letter.
FirstTokens ==
  {ValueString(v) : v \in TokenValues} \cup {Str(10 + v) : v \in TokenValues}
    \cup {<<Ord("+")>>}

\* A file is written by hand; loc is what was written.
WriteFile ==
  /\ pc = "grid"
  /\ \E directive \in Directives, count \in TokenCounts, first \in FirstTokens :
       \E tokens \in {[k \in 1..count |-> IF k = 1 THEN first ELSE ValueString(0)]} :
          /\ text' = TokenFile(directive, tokens)
          /\ loc' = [directive |-> directive, tokens |-> tokens]
  /\ pc' = "written"
  /\ ret' = "None"
  /\ UNCHANGED <<board, sudoku, entry, nops>>

\* The grid that will load the file is another one.
OtherGrid ==
  /\ pc \in {"saved", "written"}
  /\ \E cs \in FileCellSizes : board' = NewBoard(cs)
  /\ board' # board
  /\ UNCHANGED <<sudoku, pc, ret, entry, loc, text, nops>>

\* board.load(filename) on an existing grid; entry is the grid at the call.
LoadCall ==
  /\ pc \in {"saved", "written"}
  /\ \E r \in {Load(board, "file", text)} :
       /\ board' = r.board
       /\ ret' = IF r.error THEN "ValueError" ELSE "None"
  /\ entry' = board
  /\ pc' = IF pc = "saved" THEN "reloaded" ELSE "loaded"
  /\ UNCHANGED <<sudoku, loc, text, nops>>

NextFile ==
  \/ FileSetCell
  \/ SaveCall
  \/ WriteFile
  \/ OtherGrid
  \/ LoadCall

SpecIO == InitFile /\ [][NextFile]_vars

----------------------------------------------------------------------------
(* Sudoku.create: one action for each random draw, with the work the code  *)
(* does up to the next draw.                                               *)

\* create_sudoku_position(j, i), choice being the draw of random.choice.
CreateSudokuPosition(s, j, i, choice) ==
  IF Cardinality(s.possible_values[j][i]) <= 1 THEN s
  ELSE Then(LAMBDA s1 : IF AreHoles(s1) THEN SetItem(s1, j, i, 0) ELSE Algorithms(s1),
            SetItem(s, j, i, choice))

RECURSIVE NextChoice(_)

\* create_numbers from the position of index c.k of a sweep (changes is the
\* counter read when the sweep began) up to the next position where a number
\* is drawn, or to the end of create_numbers (done).  The positions passed
\* in between are left as they are: they are solved or without candidates.
NextChoice(c) ==
  LET n     == c.sudoku.boardsize
      order == RowMajor(n)
      open  == {k \in c.k..(n * n - 1) :
                  Cardinality(Candidates(c.sudoku, order[k + 1])) > 1}
  IN  IF open # {}
        THEN [c EXCEPT !.k = CHOOSE k \in open : \A m \in open : k <= m]
      ELSE IF c.changes # Changes(c.sudoku)
        THEN NextChoice([c EXCEPT !.changes = Changes(c.sudoku), !.k = 0])
      ELSE IF Finished(c.sudoku)
        THEN [c EXCEPT !.done = TRUE]
      ELSE NextChoice([c EXCEPT !.sudoku = InitializeValues(ClearChanges(c.sudoku)),
                                !.changes = -1, !.k = n * n])

\* create_hole without the solve() that verifies the clearing.
CreateHoleUnverified(s, j, i) ==
  IF GetItem(s, j, i) = 0 THEN s ELSE SetItem(s, j, i, 0)

\* create_hole(j, i)
CreateHole(s, j, i) ==
  IF GetItem(s, j, i) = 0 THEN s
  ELSE IF Solve(NewSudoku(BoardSetItem(ToBoard(s), j, i, 0).board, s.difficulty)).result
    THEN SetItem(s, j, i, 0)
    ELSE s

\* A create_holes that ends after its random draws.
HoleSweepsNone(s, changes) == s

RECURSIVE HoleSweeps(_, _)

\* The second loop of create_holes: sweeps of create_hole over all positions
\* until a sweep leaves the changes counter as it was.
HoleSweeps(s, changes) ==
  IF changes = Changes(s) THEN s
  ELSE HoleSweeps(FoldRange(LAMBDA t, k : CreateHole(t, RowMajor(s.boardsize)[k][1],
                                                     RowMajor(s.boardsize)[k][2]),
                            s, 1, s.boardsize * s.boardsize),
                  Changes(s))

\* A create_holes that clears nothing.
CreateHolesNone(s, draws) == s

\* create_holes, draws being the boardsize^2 positions drawn by its first
\* loop.
CreateHoles(s, draws) ==
  HoleSweeps(FoldRange(LAMBDA t, k : CreateHole(t, draws[k][1], draws[k][2]),
                       s, 1, Len(draws)),
             -1)

MaxHandicap == 1

\* random.choice gives the first candidate, and up to MaxOtherChoices times
\* in a run the last one.
MaxOtherChoices == 2

\* The region sizes of the engines that create.
CreateCellSizes == {<<2, 1>>, <<1, 2>>, <<2, 2>>}

First(candidates) == CHOOSE v \in candidates : \A u \in candidates : v <= u

Last(candidates) == CHOOSE v \in candidates : \A u \in candidates : u <= v

\* The positions drawn by random.randint in create_holes and give_numbers.
DrawnCells(s) == {<<0, 0>>, <<1, 1>>}

\* The draws of the first loop of create_holes: two positions in turn.
Draws(s) ==
  {[k \in 1..(s.boardsize * s.boardsize) |-> IF k % 2 = 1 THEN p ELSE q] :
     p \in DrawnCells(s), q \in DrawnCells(s)}

InitCreate ==
  /\ board \in {NewBoard(cs) : cs \in CreateCellSizes}
  /\ sudoku \in {NewSudoku(board, Difficulties[k]) : k \in 1..Len(Difficulties)}
  /\ pc = "engine"
  /\ ret = "None"
  /\ entry = "None"
  /\ loc = "None"
  /\ text = <<>>
  /\ nops = 0

\* The outcome of create_numbers so far: its next draw, or its end, where
\* entry is the board solved (solved = self.to_board()) and create_holes is
\* next.
Numbers(c) ==
  /\ sudoku' = c.sudoku
  /\ pc' = IF c.done THEN "holes" ELSE "numbers"
  /\ loc' = IF c.done THEN "None" ELSE [changes |-> c.changes, k |-> c.k]
  /\ entry' = IF c.done THEN ToBoard(c.sudoku) ELSE entry

\* sudoku.create(handicap) is called: create_numbers up to its first draw.
CreateCall ==
  /\ pc = "engine"
  /\ Numbers(NextChoice([sudoku  |-> InitializeValues(ClearChanges(sudoku)),
                         changes |-> -1,
                         k       |-> sudoku.boardsize * sudoku.boardsize,
                         done    |-> FALSE]))
  /\ UNCHANGED <<board, ret, text, nops>>

\* A number is drawn for the open position, and create_numbers goes on up to
\* its next draw; nops counts the draws of a last candidate.
CreateNumber ==
  /\ pc = "numbers"
  /\ \E other \in BOOLEAN :
       /\ other => nops < MaxOtherChoices
       /\ nops' = IF other THEN nops + 1 ELSE nops
       /\ Numbers(NextChoice(
            [sudoku  |-> CreateSudokuPosition(
                           sudoku,
                           RowMajor(sudoku.boardsize)[loc.k + 1][1],
                           RowMajor(sudoku.boardsize)[loc.k + 1][2],
                           IF other
                             THEN Last(Candidates(sudoku, RowMajor(sudoku.boardsize)[loc.k + 1]))
                             ELSE First(Candidates(sudoku, RowMajor(sudoku.boardsize)[loc.k + 1]))),
             changes |-> loc.changes,
             k       |-> loc.k + 1,
             done    |-> FALSE]))
  /\ UNCHANGED <<board, ret, text>>

\* create_holes; then create returns, or give_numbers begins.  handicap, the
\* argument of create, is first read here: loc keeps what is left of it, and
\* the puzzle that create_holes has made.
CreateHolesCall ==
  /\ pc = "holes"
  /\ \E draws \in Draws(sudoku) :
       \E s1 \in {CreateHoles(sudoku, draws)} :
          \E handicap \in 0..MaxHandicap :
             /\ sudoku' = s1
             /\ loc' = [handicap |-> handicap, how_many |-> handicap,
                        minimal |-> ToBoard(s1)]
             /\ pc' = IF GiveNumbersDone([sudoku |-> s1, how_many |-> handicap])
                        THEN "created" ELSE "handicap"
  /\ UNCHANGED <<board, ret, entry, text, nops>>

\* One turn of the loop of give_numbers(solved, handicap).
CreateGiveNumber ==
  /\ pc = "handicap"
  /\ \E p \in DrawnCells(sudoku) :
       \E g \in {GiveNumbersStep([sudoku |-> sudoku, how_many |-> loc.how_many],
                                 entry, p[1], p[2])} :
          /\ sudoku' = g.sudoku
          /\ loc' = [loc EXCEPT !.how_many = g.how_many]
          /\ pc' = IF GiveNumbersDone(g) THEN "created" ELSE "handicap"
  /\ UNCHANGED <<board, ret, entry, text, nops>>

\* board = sudoku.to_board()
ToBoardCall ==
  /\ pc = "created"
  /\ board' = ToBoard(sudoku)
  /\ pc' = "puzzle"
  /\ UNCHANGED <<sudoku, ret, entry, loc, text, nops>>

NextCreate ==
  \/ CreateCall
  \/ CreateNumber
  \/ CreateHolesCall
  \/ CreateGiveNumber
  \/ ToBoardCall

SpecCreate == InitCreate /\ [][NextCreate]_vars

----------------------------------------------------------------------------
(* Properties of the solver                                                *)

\* The rows, the columns and the w-by-h regions of the grid of s.
AllUnits(s) ==
  {RowCells(s, j) : j \in 0..(s.boardsize - 1)}
    \cup {ColumnCells(s, i) : i \in 0..(s.boardsize - 1)}
    \cup {RegionCells(s, j, i) : j \in 0..(s.boardsize - 1), i \in 0..(s.boardsize - 1)}

\* Every unit holds each value of 1..boardsize in exactly one solved cell.
ValidCompletion(s) ==
  \A unit \in AllUnits(s) : \A v \in 1..s.boardsize :
     Cardinality({k \in 1..Len(unit) : Candidates(s, unit[k]) = {v}}) = 1

\* The engine that solve() or solvable() was called on is the one seeded
\* from the grid, untouched since.
Fresh == entry = NewSudoku(board, entry.difficulty)

\* Some row of b holds the same nonzero value in two cells.
RowDuplicate(b) ==
  \E j, i1, i2 \in 0..(b.boardsize - 1) :
     i1 # i2 /\ b.numbers[j][i1] # 0 /\ b.numbers[j][i1] = b.numbers[j][i2]

\* A fresh engine seeded from b succeeds with solve() under tier.
Succeeds(b, tier) == Solve(NewSudoku(b, tier)).result

TierRank(tier) == CHOOSE k \in 1..3 : <<"easy", "normal", "hard">>[k] = tier

\* C1. Completion validity: when solve() on a fresh engine seeded from the
\* grid returns success, every row, every column and every region holds each
\* value of 1..boardsize in exactly one solved cell.
CompletionValidity ==
  (pc = "solved" /\ ret = TRUE /\ Fresh) => ValidCompletion(sudoku)

\* C1 happens: a fresh engine of tier normal with open cells was solved.
CompletionWitness ==
  /\ pc = "solved"
  /\ ret = TRUE
  /\ Fresh
  /\ entry.difficulty = "normal"
  /\ ~ Finished(entry)

\* C3. Consistency check: an engine seeded from a grid with the same nonzero
\* value twice in one row returns false from solvable().
RowDuplicateUnsolvable ==
  (pc = "solvable" /\ Fresh /\ RowDuplicate(board)) => ret = FALSE

\* C4. Fixpoint at solve exit: running the tier's passes once or twice more
\* on the engine solve() returned from, after it passed the solvable() check,
\* leaves the changes counter and every candidate set as they were.
FixpointAtSolveExit ==
  pc = "passes" =>
    /\ sudoku.number_changes = loc.exit.number_changes
    /\ sudoku.possible_values = loc.exit.possible_values

\* C5. difficulty(grid) returns the first of easy, normal, hard under which a
\* fresh engine seeded from the grid succeeds with solve(), None exactly when
\* none does, and the grid is as it was at the call.
DifficultyFirstSuccess ==
  pc = "difficulty" =>
    /\ ret = IF Succeeds(entry, "easy") THEN "easy"
             ELSE IF Succeeds(entry, "normal") THEN "normal"
             ELSE IF Succeeds(entry, "hard") THEN "hard"
             ELSE "None"
    /\ board = entry

\* C5 happens: the first tier failed and the second one was returned.
DifficultyWitness == pc = "difficulty" /\ ret = "normal"

\* C6. Tier cumulativity: success under a tier implies success under every
\* stronger one, so the tier difficulty() returns is the weakest that solves
\* the grid.
TierCumulativity ==
  pc = "difficulty" =>
    /\ Succeeds(board, "easy") => Succeeds(board, "normal")
    /\ Succeeds(board, "normal") => Succeeds(board, "hard")
    /\ ret # "None" =>
         \A tier \in {"easy", "normal", "hard"} :
            Succeeds(board, tier) <=> TierRank(ret) <= TierRank(tier)

\* C6 happens: a grid with open cells is solved by the weakest tier, and by
\* the strongest.
CumulativityWitness ==
  /\ pc = "difficulty"
  /\ ret = "easy"
  /\ Succeeds(board, "hard")
  /\ \E j, i \in 0..(board.boardsize - 1) : board.numbers[j][i] = 0

\* C7. solve() on an engine whose solvable() is false returns failure and
\* leaves every candidate set and the changes counter as they were.
UnsolvableSolveFails ==
  (pc = "solved" /\ ~ Solvable(entry)) => (ret = FALSE /\ sudoku = entry)

\* C7 happens: solve() was called on an engine with a repeated value, which
\* has unsolved cells that the passes could work on.
UnsolvableWitness ==
  pc = "solved" /\ ~ Solvable(entry) /\ ~ Finished(entry) /\ entry.difficulty # "easy"

----------------------------------------------------------------------------
(* Properties of the grid files (SpecIO)                                   *)

MaxSide == 3

\* C8 (grid round trip): when the text written by save for a grid of region
\* size (w, h), w * h > 1, with every value in 0..boardsize, is loaded, the
\* load succeeds and the grid loaded has the cellsize and the numbers of the
\* grid saved.
SaveLoadRoundTrip ==
  pc = "reloaded"
    => /\ ret = "None"
       /\ board.cellsize = loc.grid.cellsize
       /\ board.numbers = loc.grid.numbers

\* C9 (directive-free load): a file without boardsize line that holds n^4
\* one-character tokens with values in 0..n*n, n >= 2, loads without error
\* into a grid of cellsize (n, n) with the tokens in row-major order, also
\* when the largest value is less than n * n.
DirectiveFreeLoad ==
  \A n \in 2..MaxSide :
     (/\ pc = "loaded"
      /\ loc.directive = <<>>
      /\ Len(loc.tokens) = n ^ 4
      /\ \A k \in 1..Len(loc.tokens) :
            /\ Len(loc.tokens[k]) = 1
            /\ ValueInteger(loc.tokens[k][1]) \in 0..(n * n))
       => /\ ret = "None"
          /\ board.cellsize = <<n, n>>
          /\ \A j, i \in 0..(n * n - 1) :
                board.numbers[j][i] = ValueInteger(loc.tokens[j * n * n + i + 1][1])

\* C10 (no partial load): when load on an existing grid raises ValueError,
\* the cellsize, the boardsize and the numbers of the grid are those it had
\* before the call.
NoPartialLoad ==
  (pc \in {"loaded", "reloaded"} /\ ret = "ValueError")
    => /\ board.cellsize = entry.cellsize
       /\ board.boardsize = entry.boardsize
       /\ board.numbers = entry.numbers

----------------------------------------------------------------------------
(* Properties of create (SpecCreate)                                       *)

\* C2 (generation soundness): for every tier and every run of random draws,
\* a fresh engine of the tier seeded from the grid that to_board() returns
\* after create(handicap = 0) is finished after solve().
GenerationSoundness ==
  (pc = "puzzle" /\ loc.handicap = 0)
    => Finished(Solve(NewSudoku(board, sudoku.difficulty)).sudoku)

\* C2 is met by a created 4x4 puzzle of the hard tier that has holes and
\* numbers, and that a fresh engine finishes.
GenerationWitness ==
  /\ pc = "puzzle"
  /\ loc.handicap = 0
  /\ board.cellsize = <<2, 2>>
  /\ sudoku.difficulty = "hard"
  /\ \E j, i \in 0..3 : board.numbers[j][i] = 0
  /\ \E j, i \in 0..3 : board.numbers[j][i] # 0
  /\ Succeeds(board, "hard")

----------------------------------------------------------------------------
(* Properties of the grid values (SpecIO)                                  *)

\* C11 (grid value range): after empty construction, sets (successful or
\* failed) and successful loads, every stored cell value is an integer of
\* 0..boardsize.
GridValueRange ==
  ~ (pc \in {"loaded", "reloaded"} /\ ret = "ValueError")
    => \A j, i \in 0..(board.boardsize - 1) :
          board.numbers[j][i] \in 0..board.boardsize

\* C12 (unparsable symbol): when a file holds a one-character token that is
\* neither a decimal digit nor a letter, load raises ValueError (it does
\* not end with a number stored for the token).
SymbolTokenRejected ==
  (/\ pc = "loaded"
   /\ \E k \in 1..Len(loc.tokens) :
         /\ Len(loc.tokens[k]) = 1
         /\ ~ IsDigit(loc.tokens[k][1])
         /\ ~ (Ord("A") <= Upper(loc.tokens[k][1]) /\ Upper(loc.tokens[k][1]) <= Ord("Z")))
    => ret = "ValueError"

----------------------------------------------------------------------------
(* Value: values are made from integers and from strings, and the string   *)
(* of a value is read again.                                               *)

MaxValue == 67

\* The characters of the one-character strings, and a string of two.
ValueTokens == {<<c>> : c \in 32..126} \cup {Str(10)}

\* Value(value) for an integer: the value and its cached string.
ValueOfInteger(value) ==
  [value |-> value, str |-> ValueString(value), error |-> FALSE]

\* Value(token) for a string: ValueError unless it has one character.
ValueOfToken(token) ==
  IF Len(token) = 1
    THEN [value |-> ValueInteger(token[1]),
          str   |-> ValueString(ValueInteger(token[1])),
          error |-> FALSE]
    ELSE [value |-> "None", str |-> "None", error |-> TRUE]

InitValue ==
  /\ board = "None"
  /\ sudoku = "None"
  /\ pc = "start"
  /\ ret = "None"
  /\ entry = "None"
  /\ loc = "None"
  /\ text = <<>>
  /\ nops = 0

\* ret = Value(v) for an integer v
ValueFromInteger ==
  /\ pc = "start"
  /\ \E v \in 0..MaxValue :
       /\ ret' = ValueOfInteger(v)
       /\ loc' = [integer |-> v]
  /\ pc' = "value"
  /\ UNCHANGED <<board, sudoku, entry, text, nops>>

\* ret = Value(token) for a string
ValueFromToken ==
  /\ pc = "start"
  /\ \E token \in ValueTokens :
       /\ ret' = ValueOfToken(token)
       /\ loc' = [token |-> token]
  /\ pc' = "symbol"
  /\ UNCHANGED <<board, sudoku, entry, text, nops>>

\* ret = Value(str(ret)) or Value(str(ret).lower()); entry is the value read.
ValueReread ==
  /\ pc = "value"
  /\ \E lower \in BOOLEAN :
       \E token \in {IF lower THEN [k \in 1..Len(ret.str) |-> Lower(ret.str[k])]
                     ELSE ret.str} :
          /\ ret' = ValueOfToken(token)
          /\ loc' = [integer |-> loc.integer, token |-> token]
  /\ entry' = ret
  /\ pc' = "reread"
  /\ UNCHANGED <<board, sudoku, text, nops>>

NextValue ==
  \/ ValueFromInteger
  \/ ValueFromToken
  \/ ValueReread

SpecValue == InitValue /\ [][NextValue]_vars

----------------------------------------------------------------------------
(* Properties of Value (SpecValue)                                         *)

\* C13 (symbol round trip): for every integer v of 0..35 the string of
\* Value(v) is the decimal digit of v when v < 10 and else the upper-case
\* letter 'A' + v - 10, and the Value made from that string, or from its
\* lower-case form, has the integer v.
SymbolRoundTrip ==
  (pc = "reread" /\ loc.integer \in 0..35)
    => /\ entry.str = IF loc.integer < 10 THEN <<Ord("0") + loc.integer>>
                      ELSE <<Ord("A") + loc.integer - 10>>
       /\ Ord("A") <= entry.str[1] => entry.str[1] <= Ord("Z")
       /\ ret.error = FALSE
       /\ ret.value = loc.integer

\* C13 happens: Value(11) has the string B, and Value("b") the integer 11.
SymbolRoundTripWitness ==
  /\ pc = "reread"
  /\ loc.integer = 11
  /\ entry.str = <<Ord("A") + 1>>
  /\ loc.token = <<Ord("b")>>
  /\ ret.value = 11

----------------------------------------------------------------------------
(* Properties of the puzzles created (SpecCreate)                          *)

\* The number of the cells of b that hold a number.
Filled(b) ==
  Cardinality({p \in (0..(b.boardsize - 1)) \X (0..(b.boardsize - 1)) :
                 b.numbers[p[1]][p[2]] # 0})

\* Every number of b is the number of the same cell of c.
Within(b, c) ==
  \A j, i \in 0..(b.boardsize - 1) :
     b.numbers[j][i] # 0 => b.numbers[j][i] = c.numbers[j][i]

\* C14 (puzzle and solved form): in every run of create(handicap = 0) the
\* grid at the end of the fill phase is finished, the puzzle returned after
\* create_holes has strictly fewer nonzero cells than that grid, and every
\* nonzero cell of the puzzle holds the value of the same cell of that grid.
PuzzleOfSolved ==
  /\ pc = "holes" => Finished(sudoku)
  /\ (pc = "puzzle" /\ loc.handicap = 0)
       => /\ Filled(entry) = entry.boardsize * entry.boardsize
          /\ Filled(board) < Filled(entry)
          /\ Within(board, entry)

\* C14 happens: a 4x4 puzzle was created without handicap by the normal
\* tier, with numbers left in it.
PuzzleOfSolvedWitness ==
  /\ pc = "puzzle"
  /\ loc.handicap = 0
  /\ sudoku.difficulty = "normal"
  /\ board.boardsize = 4
  /\ Filled(board) > 0
  /\ Filled(board) < Filled(entry)

\* C15 (handicap): create(handicap = k) with k > 0 and k not more than the
\* empty cells of the puzzle that create_holes made gives a puzzle with
\* exactly k more nonzero cells than that one, in which every cell given
\* back was empty before, and every nonzero cell holds the value of the same
\* cell of the solved board taken after the fill phase.
HandicapGivesNumbers ==
  (/\ pc = "puzzle"
   /\ loc.handicap > 0
   /\ loc.handicap <= loc.minimal.boardsize * loc.minimal.boardsize - Filled(loc.minimal))
    => /\ Filled(board) = Filled(loc.minimal) + loc.handicap
       /\ Within(loc.minimal, board)
       /\ Within(board, entry)

\* C15 happens: one number was given back to a 4x4 puzzle.
HandicapWitness ==
  /\ pc = "puzzle"
  /\ loc.handicap = 1
  /\ board.boardsize = 4
  /\ Filled(board) = Filled(loc.minimal) + 1
  /\ board # loc.minimal

----------------------------------------------------------------------------
(* Properties of seeding and of solvable() (Spec)                          *)

\* C17 (givens are kept by seed): after an engine is seeded from a grid,
\* every cell that is nonzero in the grid is solved with that value, so that
\* to_board() agrees with the grid on each of them.
GivensKept ==
  pc = "seeded" =>
    \A j, i \in 0..(board.boardsize - 1) :
       board.numbers[j][i] # 0
         => /\ sudoku.possible_values[j][i] = {board.numbers[j][i]}
            /\ ToBoard(sudoku).numbers[j][i] = board.numbers[j][i]

\* C18 (solvable() is a complete duplicate check): solvable() returns true
\* exactly when no row, no column and no region, those of the first band of
\* rows and of the first band of columns included, has two solved cells with
\* the same value.
SolvableComplete ==
  pc = "solvable" =>
    (ret = TRUE <=> \A unit \in AllUnits(entry) : NoRepeat(entry, unit))

----------------------------------------------------------------------------
(* Assignments: engines are seeded from the grids and their edits, and     *)
(* cells are assigned values (sudoku[j, i] = value with value # 0).        *)

MaxAssigns == 2

AssignCells == {<<0, 0>>, <<0, 1>>, <<1, 1>>}

\* sudoku[j, i] = value; loc is the assignment, entry the engine before it.
\* The tier plays no part in it: the engines of the first tier are taken.
AssignCall ==
  /\ pc \in {"seeded", "assigned", "cleared", "passed"}
  /\ sudoku.difficulty = Difficulties[1]
  /\ (IF pc = "seeded" THEN 0 ELSE loc.count) < MaxAssigns
  /\ \E p \in AssignCells : \E value \in 1..sudoku.boardsize :
       /\ sudoku' = SetItem(sudoku, p[1], p[2], value)
       /\ loc' = [row |-> p[1], column |-> p[2], value |-> value,
                  count |-> IF pc = "seeded" THEN 1 ELSE loc.count + 1]
  /\ entry' = sudoku
  /\ pc' = "assigned"
  /\ UNCHANGED <<board, ret, text, nops>>

NextAssign ==
  \/ SetCell
  \/ Seed
  \/ AssignCall

SpecAssign == Init /\ [][NextAssign]_vars

----------------------------------------------------------------------------
(* Properties of the assignments (SpecAssign)                              *)

\* The other positions of the row, the column and the region of (j, i).
Peers(s, j, i) ==
  {q \in (0..(s.boardsize - 1)) \X (0..(s.boardsize - 1)) :
     /\ q # <<j, i>>
     /\ \/ q[1] = j
        \/ q[2] = i
        \/ InSeq(RegionCells(s, j, i), q)}

\* C16 (assign propagates to a local fixpoint): in the states reached by
\* seeding and assignments only, when the outermost assign(r, c, v) has
\* returned, no other cell of row r, of column c or of the region of (r, c)
\* has v among its candidates, and the value of every solved cell is a
\* candidate of no other cell of its row, its column or its region.
AssignFixpoint ==
  /\ pc = "assigned" =>
       \A q \in Peers(sudoku, loc.row, loc.column) :
          loc.value \notin Candidates(sudoku, q)
  /\ pc \in {"seeded", "assigned"} =>
       \A j, i \in 0..(sudoku.boardsize - 1) :
          Cardinality(sudoku.possible_values[j][i]) = 1
            => \A q \in Peers(sudoku, j, i) :
                  sudoku.possible_values[j][i] \cap Candidates(sudoku, q) = {}

\* C16 happens: an assignment to a cell of a 6x6 engine forced the
\* assignment of other cells, and left cells unsolved.
AssignFixpointWitness ==
  /\ pc = "assigned"
  /\ sudoku.boardsize = 6
  /\ sudoku.number_changes > entry.number_changes + 1
  /\ ~ Finished(sudoku)
  /\ ~ AreHoles(sudoku)

----------------------------------------------------------------------------
(* The passes of solve(), one at a time: engines of the middle tier are    *)
(* seeded from the grids and their edits, and solve() runs on them turn by *)
(* turn, the unique-candidate sweep position by position.                  *)

\* solve() up to the start of a turn of its loop: the solvable() check on
\* entry, and while changes != self._changes(): changes = self._changes();
\* loc holds the local changes and the index of the sweep's next position.
LoopTurn ==
  /\ pc \in {"seeded", "deductable"}
  /\ sudoku.difficulty = Difficulties[2]
  /\ IF pc = "seeded" THEN Solvable(sudoku) = TRUE
                      ELSE loc.changes # Changes(sudoku)
  /\ pc' = "uniq"
  /\ loc' = [changes |-> Changes(sudoku), k |-> 1]
  /\ UNCHANGED <<board, sudoku, entry, ret, text, nops>>

\* One position of _calculate_uniq_values' loops; entry is the engine
\* before the visit.
UniqVisit ==
  /\ pc = "uniq"
  /\ loc.k <= sudoku.boardsize * sudoku.boardsize
  /\ sudoku' = UniqPosition(sudoku, RowMajor(sudoku.boardsize)[loc.k][1],
                            RowMajor(sudoku.boardsize)[loc.k][2])
  /\ entry' = sudoku
  /\ loc' = [loc EXCEPT !.k = @ + 1]
  /\ UNCHANGED <<board, pc, ret, text, nops>>

\* _remove_deductable_values, called when the sweep is over; entry is the
\* engine before the pass.
DeductablePass ==
  /\ pc = "uniq"
  /\ loc.k > sudoku.boardsize * sudoku.boardsize
  /\ sudoku' = RemoveDeductableValues(sudoku)
  /\ entry' = sudoku
  /\ pc' = "deductable"
  /\ UNCHANGED <<board, loc, ret, text, nops>>

\* if not self.solvable(): return False; and the loop ends when a turn
\* changed nothing: return self.finished().
SolveReturn ==
  /\ pc \in {"seeded", "deductable"}
  /\ sudoku.difficulty = Difficulties[2]
  /\ IF pc = "seeded" THEN Solvable(sudoku) = FALSE
                      ELSE loc.changes = Changes(sudoku)
  /\ ret' = (pc = "deductable" /\ Finished(sudoku))
  /\ pc' = "solved"
  /\ UNCHANGED <<board, sudoku, entry, loc, text, nops>>

NextPass ==
  \/ SetCell
  \/ Seed
  \/ LoopTurn
  \/ UniqVisit
  \/ DeductablePass
  \/ SolveReturn

SpecPass == Init /\ [][NextPass]_vars

----------------------------------------------------------------------------
(* Properties of the passes (SpecPass)                                     *)

\* The position visited last by the sweep.
Visited == RowMajor(sudoku.boardsize)[loc.k - 1]

\* The positions other than p that the visit solved.
Forced(p) ==
  {q \in (0..(sudoku.boardsize - 1)) \X (0..(sudoku.boardsize - 1)) :
     /\ q # p
     /\ Cardinality(Candidates(entry, q)) > 1
     /\ Cardinality(Candidates(sudoku, q)) <= 1}

\* C19 (pointing elimination): after a pass of _remove_deductable_values,
\* a value that was, in an unsolved cell's region, a candidate in the cell's
\* row only (in its column only) is a candidate of no cell of that row
\* (column) outside the region, the cell right after the region included.
PointingElimination ==
  pc = "deductable" =>
    \A j, i \in 0..(sudoku.boardsize - 1) :
      \A value \in sudoku.possible_values[j][i] :
        Cardinality(sudoku.possible_values[j][i]) > 1 =>
          /\ CheckHorizontal(entry, j, i, value) =>
               \A h \in 0..(sudoku.boardsize - 1) :
                  ~ InSeq(RegionCells(sudoku, j, i), <<j, h>>)
                    => value \notin sudoku.possible_values[j][h]
          /\ CheckVertical(entry, j, i, value) =>
               \A v \in 0..(sudoku.boardsize - 1) :
                  ~ InSeq(RegionCells(sudoku, j, i), <<v, i>>)
                    => value \notin sudoku.possible_values[v][i]

\* C20 (one deduction per cell): when the sweep's visit of an unsolved cell
\* has assigned it, the changes counter has grown by one for the cell and
\* by one for each other cell that the propagation solved.
UniqOneDeduction ==
  (/\ pc = "uniq"
   /\ loc.k > 1
   /\ Cardinality(Candidates(entry, Visited)) # 1
   /\ sudoku # entry)
    => Changes(sudoku) = Changes(entry) + 1 + Cardinality(Forced(Visited))

----------------------------------------------------------------------------
(* The naked-subset pass of solve(), one combination at a time: engines of *)
(* the strongest tier are seeded from the grids and their edits.           *)

\* The u-th search of _unmatched_candidate_deletion (sudoku.py:701-707): the
\* rows, then the columns, then the regions; its cells and whether it tests
\* possible(c).
SubsetUnit(s, u) ==
  IF u <= s.boardsize
    THEN [cells |-> RowCells(s, u - 1), guard |-> TRUE]
  ELSE IF u <= 2 * s.boardsize
    THEN [cells |-> ColumnCells(s, u - s.boardsize - 1), guard |-> FALSE]
  ELSE LET is == XRangeStep(0, s.boardsize, s.cellsize[1])
           js == XRangeStep(0, s.boardsize, s.cellsize[2])
           r  == u - 2 * s.boardsize - 1
       IN  [cells |-> RegionCells(s, js[(r \div Len(is)) + 1], is[(r % Len(is)) + 1]),
            guard |-> TRUE]

\* for x in xrange(len(unsolved) - 1, 1, -1): for c in combination(unsolved, x)
UnitCombinations(unsolved) ==
  FoldRange(LAMBDA acc, m : acc \o Combination(unsolved, Len(unsolved) - m),
            <<>>, 1, Len(unsolved) - 2)

\* solve() up to the naked-subset pass of a turn of its loop: the solvable()
\* check on entry, the loop test, and the two passes that come first.
SubsetTurn ==
  /\ pc \in {"seeded", "subset"}
  /\ sudoku.difficulty = Difficulties[3]
  /\ IF pc = "seeded" THEN Solvable(sudoku) = TRUE
     ELSE /\ loc.k > Len(loc.combos)
          /\ loc.u = 3 * sudoku.boardsize
          /\ loc.changes # Changes(sudoku)
  /\ sudoku' = RemoveDeductableValues(CalculateUniqValues(sudoku))
  /\ loc' = [changes |-> Changes(sudoku), u |-> 0, combos |-> <<>>, k |-> 1]
  /\ pc' = "subset"
  /\ UNCHANGED <<board, entry, ret, text, nops>>

\* The next search starts: unsolved = unsolved_positions()
UnitStart ==
  /\ pc = "subset"
  /\ loc.k > Len(loc.combos)
  /\ loc.u < 3 * sudoku.boardsize
  /\ loc' = [loc EXCEPT !.u = @ + 1, !.k = 1,
               !.combos = UnitCombinations(
                            UnsolvedPositions(sudoku, SubsetUnit(sudoku, loc.u + 1).cells))]
  /\ UNCHANGED <<board, sudoku, pc, entry, ret, text, nops>>

\* One combination of the search; entry is the engine before it.
CombinationStep ==
  /\ pc = "subset"
  /\ loc.k <= Len(loc.combos)
  /\ sudoku' = CombinationBody(sudoku, SubsetUnit(sudoku, loc.u).cells,
                               loc.combos[loc.k], SubsetUnit(sudoku, loc.u).guard)
  /\ entry' = sudoku
  /\ loc' = [loc EXCEPT !.k = @ + 1]
  /\ UNCHANGED <<board, pc, ret, text, nops>>

\* if not self.solvable(): return False; and the loop ends when a turn
\* changed nothing: return self.finished().
SubsetReturn ==
  /\ pc \in {"seeded", "subset"}
  /\ sudoku.difficulty = Difficulties[3]
  /\ IF pc = "seeded" THEN Solvable(sudoku) = FALSE
     ELSE /\ loc.k > Len(loc.combos)
          /\ loc.u = 3 * sudoku.boardsize
          /\ loc.changes = Changes(sudoku)
  /\ ret' = (pc = "subset" /\ Finished(sudoku))
  /\ pc' = "solved"
  /\ UNCHANGED <<board, sudoku, entry, loc, text, nops>>

NextSubset ==
  \/ SetCell
  \/ Seed
  \/ SubsetTurn
  \/ UnitStart
  \/ CombinationStep
  \/ SubsetReturn

SpecSubset == Init /\ [][NextSubset]_vars

----------------------------------------------------------------------------
(* Properties of the naked-subset pass (SpecSubset)                        *)

\* The combination examined last, and the candidates its members had.
Examined == loc.combos[loc.k - 1]

ExaminedValues == UNION {Candidates(entry, Examined[m]) : m \in 1..Len(Examined)}

\* C21 (naked-subset rule, the same on every axis): when a search has
\* examined a combination of n cells of its row, column or region, then if
\* every member had at most n candidates and their union had exactly n
\* values, none of these values is a candidate of another cell of the unit,
\* and otherwise nothing has changed; and a column search has done what the
\* search with the size test does from the same state.
NakedSubsetRule ==
  (pc = "subset" /\ loc.k > 1) =>
    /\ IF /\ \A m \in 1..Len(Examined) :
               Cardinality(Candidates(entry, Examined[m])) <= Len(Examined)
          /\ Cardinality(ExaminedValues) = Len(Examined)
         THEN \A q \in {SubsetUnit(sudoku, loc.u).cells[a] : a \in 1..sudoku.boardsize} :
                 ~ InSeq(Examined, q) => Candidates(sudoku, q) \cap ExaminedValues = {}
         ELSE sudoku = entry
    /\ ~ SubsetUnit(sudoku, loc.u).guard
         => sudoku = CombinationBody(entry, SubsetUnit(sudoku, loc.u).cells, Examined, TRUE)

\* C21 happens: a column search has found a naked subset and removed its
\* values from other cells of the column.
NakedSubsetWitness ==
  /\ pc = "subset"
  /\ loc.k > 1
  /\ ~ SubsetUnit(sudoku, loc.u).guard
  /\ sudoku # entry

----------------------------------------------------------------------------
(* The engine under assignments, clearings and passes: engines are seeded  *)
(* from the grids and their edits; then cells are assigned, cells are      *)
(* cleared (sudoku[j, i] = 0) and the three passes are run, in any order.  *)

\* sudoku[j, i] = 0; loc is the clearing, entry the engine before it.
ClearCall ==
  /\ pc \in {"seeded", "assigned", "cleared", "passed"}
  /\ sudoku.difficulty = Difficulties[1]
  /\ (IF pc = "seeded" THEN 0 ELSE loc.count) < MaxAssigns
  /\ \E p \in AssignCells :
       /\ sudoku' = SetItem(sudoku, p[1], p[2], 0)
       /\ loc' = [row |-> p[1], column |-> p[2], value |-> 0,
                  count |-> IF pc = "seeded" THEN 1 ELSE loc.count + 1]
  /\ entry' = sudoku
  /\ pc' = "cleared"
  /\ UNCHANGED <<board, ret, text, nops>>

\* One of the three passes is run (the tier only tells which of them solve()
\* runs); entry is the engine before it.
PassCall ==
  /\ pc \in {"seeded", "assigned", "cleared", "passed"}
  /\ sudoku.difficulty = Difficulties[1]
  /\ (IF pc = "seeded" THEN 0 ELSE loc.count) < MaxAssigns
  /\ \E name \in {"uniq", "deductable", "unmatched"} :
       /\ sudoku' = RunPass(sudoku, name)
       /\ loc' = [pass |-> name,
                  count |-> IF pc = "seeded" THEN 1 ELSE loc.count + 1]
  /\ entry' = sudoku
  /\ pc' = "passed"
  /\ UNCHANGED <<board, ret, text, nops>>

NextEngine ==
  \/ SetCell
  \/ Seed
  \/ AssignCall
  \/ ClearCall
  \/ PassCall

SpecEngine == Init /\ [][NextEngine]_vars

----------------------------------------------------------------------------
(* Properties of the engine (SpecEngine)                                   *)

\* C22 (revert is local): when a solved cell has been cleared it holds the
\* full range 1..boardsize, the changes counter is one less and every other
\* cell holds what it held; when the cell cleared was not solved, nothing
\* has changed.
RevertLocal ==
  pc = "cleared" =>
    IF Cardinality(entry.possible_values[loc.row][loc.column]) = 1
      THEN /\ sudoku.possible_values[loc.row][loc.column] = 1..sudoku.boardsize
           /\ Changes(sudoku) = Changes(entry) - 1
           /\ \A j, i \in 0..(sudoku.boardsize - 1) :
                 <<j, i>> # <<loc.row, loc.column>>
                   => sudoku.possible_values[j][i] = entry.possible_values[j][i]
      ELSE sudoku = entry

\* C22 happens: a solved cell was cleared whose value its peers had lost,
\* and a peer of it is still without that value.
RevertLocalWitness ==
  /\ pc = "cleared"
  /\ Cardinality(entry.possible_values[loc.row][loc.column]) = 1
  /\ \E q \in Peers(sudoku, loc.row, loc.column) :
        /\ Cardinality(Candidates(sudoku, q)) > 1
        /\ entry.possible_values[loc.row][loc.column] \cap Candidates(sudoku, q) = {}

\* C28 (no duplicate solved values): in the states reached from the seed by
\* assignments, clearings and passes, no two solved cells of a row, a
\* column or a region hold the same value, and solvable() is true.
NoDuplicateSolved ==
  pc \in {"seeded", "assigned", "cleared", "passed"} =>
    /\ \A unit \in AllUnits(sudoku) : NoRepeat(sudoku, unit)
    /\ Solvable(sudoku) = TRUE

\* C28 happens: a value was assigned to a cell with a peer solved as that
\* value, and the peer is left without candidates.
NoDuplicateWitness ==
  /\ pc = "assigned"
  /\ \E q \in Peers(sudoku, loc.row, loc.column) :
        /\ Candidates(entry, q) = {loc.value}
        /\ Candidates(sudoku, q) = {}
  /\ sudoku.possible_values[loc.row][loc.column] = {loc.value}

\* C29 (holes are permanent): a cell without candidates before an
\* assignment, a clearing or a pass is without candidates after it.
HolesPermanent ==
  pc \in {"assigned", "cleared", "passed"} =>
    \A j, i \in 0..(sudoku.boardsize - 1) :
       entry.possible_values[j][i] = {} => sudoku.possible_values[j][i] = {}

----------------------------------------------------------------------------
(* The fill phase of create(), one position at a time and with every draw  *)
(* of random.choice: create_numbers on the engines that create.            *)

\* The region sizes of the engines that are filled.
FillCellSizes == CreateCellSizes \cup {<<2, 3>>}

InitFill ==
  /\ board \in {NewBoard(cs) : cs \in FillCellSizes}
  /\ sudoku \in {NewSudoku(board, Difficulties[k]) : k \in 1..Len(Difficulties)}
  /\ pc = "engine"
  /\ ret = "None"
  /\ entry = "None"
  /\ loc = "None"
  /\ text = <<>>
  /\ nops = 0

\* random.choice gives the first candidate, and up to MaxLastDraws times in
\* a run the last one; nops counts the draws of a last candidate.
MaxLastDraws == 1

FillChoices(candidates) ==
  {First(candidates)} \cup (IF nops < MaxLastDraws THEN {Last(candidates)} ELSE {})

\* create_sudoku_position on the open position with the number drawn; entry
\* is the engine before it.
FillPosition ==
  /\ pc = "numbers"
  /\ \E choice \in FillChoices(Candidates(sudoku, RowMajor(sudoku.boardsize)[loc.k + 1])) :
       /\ sudoku' = CreateSudokuPosition(sudoku,
                                         RowMajor(sudoku.boardsize)[loc.k + 1][1],
                                         RowMajor(sudoku.boardsize)[loc.k + 1][2],
                                         choice)
       /\ loc' = [changes |-> loc.changes, k |-> loc.k, choice |-> choice]
       /\ nops' = IF choice = First(Candidates(sudoku, RowMajor(sudoku.boardsize)[loc.k + 1]))
                    THEN nops ELSE nops + 1
  /\ entry' = sudoku
  /\ pc' = "placed"
  /\ UNCHANGED <<board, ret, text>>

\* create_numbers goes on from the next position up to its next draw, or to
\* its end.
FillNext ==
  /\ pc = "placed"
  /\ Numbers(NextChoice([sudoku  |-> sudoku,
                         changes |-> loc.changes,
                         k       |-> loc.k + 1,
                         done    |-> FALSE]))
  /\ UNCHANGED <<board, ret, text, nops>>

NextFill ==
  \/ CreateCall
  \/ FillPosition
  \/ FillNext

SpecFill == InitFill /\ [][NextFill]_vars

----------------------------------------------------------------------------
(* Properties of the fill phase (SpecFill)                                 *)

\* The position of the last draw, and the engine right after the assignment
\* of the number drawn.
Placed == RowMajor(sudoku.boardsize)[loc.k + 1]

Assigned == SetItem(entry, Placed[1], Placed[2], loc.choice)

\* C23 (hole recovery in the fill phase): when the assignment of the number
\* drawn has left cells without candidates, each of these cells holds the
\* full range 1..boardsize afterwards and every other cell holds what it
\* held after the assignment.
HoleRecovery ==
  (pc = "placed" /\ AreHoles(Assigned)) =>
    \A j, i \in 0..(sudoku.boardsize - 1) :
       IF Assigned.possible_values[j][i] = {}
         THEN sudoku.possible_values[j][i] = 1..sudoku.boardsize
         ELSE sudoku.possible_values[j][i] = Assigned.possible_values[j][i]

\* C24 (the fill phase yields a valid completed grid): when create_numbers
\* has ended, every cell is solved and every row, column and region holds
\* each value of 1..boardsize exactly once.
FillValid ==
  pc = "holes" =>
    /\ \A j, i \in 0..(sudoku.boardsize - 1) :
          Cardinality(sudoku.possible_values[j][i]) = 1
    /\ ValidCompletion(sudoku)

\* C24 happens: a 6x6 grid is complete after a run in which one draw gave
\* the last candidate.
FillValidWitness ==
  /\ pc = "holes"
  /\ sudoku.boardsize = 6
  /\ sudoku.difficulty = Difficulties[2]
  /\ nops = 1

----------------------------------------------------------------------------
(* Further properties of create (SpecCreate)                               *)

\* The board of s with the cell (j, i) zeroed, in a fresh engine of the tier
\* of s.
WithoutCell(s, j, i) ==
  NewSudoku(BoardSetItem(ToBoard(s), j, i, 0).board, s.difficulty)

\* C25 (hole-punching is locally minimal): when create(handicap=0) returns,
\* no nonzero cell of the puzzle can be zeroed so that a fresh engine of the
\* same tier finishes the grid with solve(); and when cells were cleared,
\* a fresh engine of the tier finishes the puzzle.
LocallyMinimal ==
  (pc = "created" /\ loc.handicap = 0) =>
    /\ \A j, i \in 0..(sudoku.boardsize - 1) :
          GetItem(sudoku, j, i) # 0 => ~ Solve(WithoutCell(sudoku, j, i)).result
    /\ ToBoard(sudoku) # entry
         => Solve(NewSudoku(ToBoard(sudoku), sudoku.difficulty)).result

\* C25 happens: create(handicap=0) has returned a 4x4 puzzle with cells
\* cleared and cells left.
LocallyMinimalWitness ==
  /\ pc = "created"
  /\ loc.handicap = 0
  /\ sudoku.boardsize = 4
  /\ \E j, i \in 0..3 : GetItem(sudoku, j, i) # 0
  /\ \E j, i \in 0..3 : GetItem(sudoku, j, i) = 0

----------------------------------------------------------------------------
(* One assignment, elimination by elimination: engines are seeded from the *)
(* grids and their edits, a cell is assigned a value, and the calls of     *)
(* _propagate_value_substraction in progress are stepped one position at a *)
(* time; loc holds the assignment and the stack of these calls.            *)

\* The engines of the first tier seeded from the grids and from the grids
\* with one cell edited; no assignment has been made.
InitPropagate ==
  /\ board \in Grids \cup {BoardSetItem(g, p[1], p[2], value).board :
                             g \in Grids, p \in EditCells, value \in {0, 1, 3}}
  /\ sudoku = NewSudoku(board, Difficulties[1])
  /\ pc = "seeded"
  /\ ret = "None"
  /\ entry = sudoku
  /\ loc = [row |-> 0, column |-> 0, value |-> 0, stack |-> <<>>]
  /\ text = <<>>
  /\ nops = 0

\* sudoku[j, i] = value up to its call of _propagate_value_substraction;
\* entry is the engine before it.
AssignBegin ==
  /\ pc = "seeded"
  /\ sudoku.difficulty = Difficulties[1]
  /\ \E p \in AssignCells : \E value \in 1..sudoku.boardsize :
       \E m \in {Assign(Call(sudoku), p[1], p[2], value)} :
          /\ sudoku' = m.sudoku
          /\ loc' = [row |-> p[1], column |-> p[2], value |-> value,
                     stack |-> m.stack]
  /\ entry' = sudoku
  /\ pc' = "propagating"
  /\ UNCHANGED <<board, ret, text, nops>>

\* A propagation whose outermost call starts over when it has visited its
\* last position.
PropagationStepAgain ==
  /\ pc = "propagating"
  /\ \E m \in {PropagateStep([sudoku |-> sudoku, stack |-> loc.stack])} :
       /\ sudoku' = m.sudoku
       /\ loc' = [loc EXCEPT !.stack = IF m.stack = <<>>
                                         THEN <<[loc.stack[1] EXCEPT !.k = 1]>>
                                         ELSE m.stack]
  /\ UNCHANGED <<board, pc, entry, ret, text, nops>>

\* One position of the innermost call in progress, or its return; the
\* assignment has returned when no call is left.
PropagationStep ==
  /\ pc = "propagating"
  /\ \E m \in {PropagateStep([sudoku |-> sudoku, stack |-> loc.stack])} :
       /\ sudoku' = m.sudoku
       /\ loc' = [loc EXCEPT !.stack = m.stack]
       /\ pc' = IF m.stack = <<>> THEN "assigned" ELSE "propagating"
  /\ UNCHANGED <<board, entry, ret, text, nops>>

NextPropagate ==
  \/ AssignBegin
  \/ PropagationStep

SpecPropagate == InitPropagate /\ [][NextPropagate]_vars

\* The interpreter goes on with a call in progress.
FairPropagate == SpecPropagate /\ WF_vars(PropagationStep)

----------------------------------------------------------------------------
(* Properties of one assignment (FairPropagate)                            *)

\* The number of candidates of all cells of s together.
CandidateCount(s) ==
  FoldRange(LAMBDA acc, k : acc + Cardinality(Candidates(s, RowMajor(s.boardsize)[k])),
            0, 1, s.boardsize * s.boardsize)

\* C26 (assign terminates): an assignment in progress, with the assignments
\* it forces, returns, and no step of it adds a candidate to a cell.
AssignTerminates ==
  /\ (pc = "propagating") ~> (pc = "assigned")
  /\ [][pc = "propagating" =>
          \A j, i \in 0..(sudoku.boardsize - 1) :
             sudoku'.possible_values[j][i] \subseteq sudoku.possible_values[j][i]]_vars

\* C26 happens: an assignment has returned after eliminations that forced
\* the assignment of other cells; it has done what __setitem__ does.
AssignTerminatesWitness ==
  /\ pc = "assigned"
  /\ Changes(sudoku) > Changes(entry) + 1
  /\ CandidateCount(sudoku) < CandidateCount(entry)
  /\ sudoku = SetItem(entry, loc.row, loc.column, loc.value)

-----------------------------------------------------------------------------
(* Deduction soundness: completed grids against the engines seeded from    *)
(* the grids of the runs.                                                  *)

\* Completed grids: two of 4x4 and six of 6x6 (regions 2 wide, 3 high).
Completions ==
  { LoadNumbers(NewBoard(<<2, 2>>),
                <<1, 2, 3, 4,  3, 4, 1, 2,  2, 1, 4, 3,  4, 3, 2, 1>>,
                <<2, 2>>).board,
    LoadNumbers(NewBoard(<<2, 2>>),
                <<1, 4, 3, 2,  3, 2, 1, 4,  2, 1, 4, 3,  4, 3, 2, 1>>,
                <<2, 2>>).board,
    LoadNumbers(NewBoard(<<2, 3>>),
                <<4, 3, 5, 2, 6, 1,  2, 1, 4, 6, 3, 5,  6, 5, 3, 1, 2, 4,
                  1, 4, 6, 3, 5, 2,  5, 6, 2, 4, 1, 3,  3, 2, 1, 5, 4, 6>>,
                <<2, 3>>).board,
    LoadNumbers(NewBoard(<<2, 3>>),
                <<2, 5, 4, 3, 6, 1,  6, 1, 5, 2, 4, 3,  4, 3, 6, 1, 5, 2,
                  1, 4, 3, 6, 2, 5,  5, 2, 1, 4, 3, 6,  3, 6, 2, 5, 1, 4>>,
                <<2, 3>>).board,
    LoadNumbers(NewBoard(<<2, 3>>),
                <<4, 6, 3, 2, 1, 5,  3, 5, 1, 4, 2, 6,  1, 2, 5, 6, 3, 4,
                  2, 1, 4, 5, 6, 3,  5, 3, 6, 1, 4, 2,  6, 4, 2, 3, 5, 1>>,
                <<2, 3>>).board,
    LoadNumbers(NewBoard(<<2, 3>>),
                <<4, 5, 3, 6, 1, 2,  3, 2, 4, 1, 5, 6,  6, 1, 5, 2, 3, 4,
                  2, 4, 1, 3, 6, 5,  5, 3, 6, 4, 2, 1,  1, 6, 2, 5, 4, 3>>,
                <<2, 3>>).board,
    LoadNumbers(NewBoard(<<2, 3>>),
                <<1, 6, 2, 3, 5, 4,  3, 2, 5, 4, 1, 6,  5, 4, 1, 6, 2, 3,
                  6, 1, 4, 2, 3, 5,  2, 3, 6, 5, 4, 1,  4, 5, 3, 1, 6, 2>>,
                <<2, 3>>).board,
    LoadNumbers(NewBoard(<<2, 3>>),
                <<6, 1, 2, 5, 3, 4,  3, 2, 6, 4, 5, 1,  5, 4, 1, 3, 6, 2,
                  2, 5, 3, 1, 4, 6,  1, 3, 4, 6, 2, 5,  4, 6, 5, 2, 1, 3>>,
                <<2, 3>>).board }

\* Two positions of a grid lie in the same row, column or region (a region
\* is cellsize[1] wide and cellsize[2] high).
SameUnit(b, p, q) ==
  \/ p[1] = q[1]
  \/ p[2] = q[2]
  \/ /\ p[1] \div b.cellsize[2] = q[1] \div b.cellsize[2]
     /\ p[2] \div b.cellsize[1] = q[2] \div b.cellsize[1]

\* S has each value of 1..boardsize exactly once in every row, column and
\* region, and agrees with b on every nonzero cell of b.
Completes(S, b) ==
  LET cells == (0..(S.boardsize - 1)) \X (0..(S.boardsize - 1))
  IN  /\ S.cellsize = b.cellsize
      /\ \A p \in cells : S.numbers[p[1]][p[2]] \in 1..S.boardsize
      /\ \A p, q \in cells :
            (p # q /\ SameUnit(S, p, q))
               => S.numbers[p[1]][p[2]] # S.numbers[q[1]][q[2]]
      /\ \A p \in cells :
            b.numbers[p[1]][p[2]] # 0
               => b.numbers[p[1]][p[2]] = S.numbers[p[1]][p[2]]

\* Every value of S is still a candidate of its cell in s.
Keeps(s, S) ==
  \A j, i \in 0..(s.boardsize - 1) :
     S.numbers[j][i] \in s.possible_values[j][i]

\* The engine is the one seeded from the grid, or the one solve() has left of
\* it.
SeededOrSolved ==
  \/ pc = "seeded"
  \/ pc = "solved" /\ Fresh

\* C27. Deduction soundness: when a completed grid S agrees with the grid on
\* every nonzero cell and has each value once in every row, column and
\* region, then after seed and after solve() under any tier every cell still
\* has S's value among its candidates, no cell has an empty candidate set,
\* and when solve() succeeds to_board() equals S.
DeductionSoundness ==
  \A S \in Completions :
     (SeededOrSolved /\ Completes(S, board))
        => /\ Keeps(sudoku, S)
           /\ ~ AreHoles(sudoku)
           /\ (pc = "solved" /\ ret = TRUE) => ToBoard(sudoku) = S

\* C27 witness: solve() under the hardest tier has failed on a grid with
\* several of the completed grids as completions, after deleting candidates.
DeductionSoundnessWitness ==
  /\ pc = "solved"
  /\ Fresh
  /\ ret = FALSE
  /\ sudoku.difficulty = Difficulties[3]
  /\ sudoku # entry
  /\ Cardinality({S \in Completions : Completes(S, board)}) >= 2
  /\ \A S \in Completions : Completes(S, board) => Keeps(sudoku, S)

\* C27 witness of success: solve() has succeeded on a grid with empty cells
\* and the solved grid is the completed grid.
DeductionSolvedWitness ==
  /\ pc = "solved"
  /\ Fresh
  /\ ret = TRUE
  /\ \E j, i \in 0..(board.boardsize - 1) : board.numbers[j][i] = 0
  /\ \E S \in Completions : Completes(S, board) /\ ToBoard(sudoku) = S

-----------------------------------------------------------------------------
(* The changes-counter loops, turn by turn: the loop of solve() on the     *)
(* engines seeded from the grids, and the second loop of create_holes on   *)
(* the engines that hold a completed grid.                                 *)

\* Engines seeded under every tier; nops counts the turns of the loops.
InitLoops ==
  /\ board \in Grids \cup Completions
                \cup {BoardSetItem(g, p[1], p[2], value).board :
                        g \in Grids, p \in EditCells, value \in {0, 1, 3}}
  /\ sudoku \in {NewSudoku(board, Difficulties[k]) : k \in 1..Len(Difficulties)}
  /\ pc = "seeded"
  /\ ret = "None"
  /\ entry = sudoku
  /\ loc = [changes |-> -1, result |-> FALSE]
  /\ text = <<>>
  /\ nops = 0

\* solve() is called: the solvable() check, changes = -1 and the first test
\* of the loop.
SolveEnter ==
  /\ pc = "seeded"
  /\ IF Solvable(sudoku) /\ Changes(sudoku) # -1
       THEN /\ pc' = "solving"
            /\ loc' = [loc EXCEPT !.changes = -1]
       ELSE /\ pc' = "returned"
            /\ loc' = [loc EXCEPT !.result = Solvable(sudoku) /\ Finished(sudoku)]
  /\ UNCHANGED <<board, sudoku, ret, entry, text, nops>>

\* A solve() whose loop takes another turn whatever the counter says.
SolveRoundAgain ==
  /\ pc = "solving"
  /\ sudoku' = Algorithms(sudoku)
  /\ loc' = [loc EXCEPT !.changes = Changes(sudoku)]
  /\ nops' = (nops + 1) % 3
  /\ UNCHANGED <<board, pc, ret, entry, text>>

\* One turn of the loop of solve(): changes = self._changes(), the passes of
\* the tier, and the test of the loop; when it fails, solve() returns
\* finished().
SolveRound ==
  /\ pc = "solving"
  /\ \E s \in {Algorithms(sudoku)} :
       /\ sudoku' = s
       /\ IF Changes(sudoku) # Changes(s)
            THEN /\ pc' = "solving"
                 /\ loc' = [loc EXCEPT !.changes = Changes(sudoku)]
            ELSE /\ pc' = "returned"
                 /\ loc' = [changes |-> Changes(sudoku), result |-> Finished(s)]
  /\ nops' = nops + 1
  /\ UNCHANGED <<board, ret, entry, text>>

\* create_holes() is called on an engine that holds a completed grid: the
\* draws of its first loop, changes = -1 and the first test of the second
\* loop.
HolesEnter ==
  /\ pc = "seeded"
  /\ Finished(sudoku)
  /\ \E draws \in Draws(sudoku) :
       \E s \in {FoldRange(LAMBDA t, k : CreateHole(t, draws[k][1], draws[k][2]),
                           sudoku, 1, Len(draws))} :
          /\ sudoku' = s
          /\ pc' = IF Changes(s) # -1 THEN "sweeping" ELSE "punched"
  /\ loc' = [loc EXCEPT !.changes = -1]
  /\ UNCHANGED <<board, ret, entry, text, nops>>

\* One sweep of the second loop of create_holes: changes = self._changes(),
\* create_hole on every position, and the test of the loop.
HoleSweep ==
  /\ pc = "sweeping"
  /\ \E s \in {FoldRange(LAMBDA t, k : CreateHole(t, RowMajor(sudoku.boardsize)[k][1],
                                                  RowMajor(sudoku.boardsize)[k][2]),
                         sudoku, 1, sudoku.boardsize * sudoku.boardsize)} :
       /\ sudoku' = s
       /\ pc' = IF Changes(sudoku) # Changes(s) THEN "sweeping" ELSE "punched"
  /\ loc' = [loc EXCEPT !.changes = Changes(sudoku)]
  /\ nops' = nops + 1
  /\ UNCHANGED <<board, ret, entry, text>>

NextLoops ==
  \/ SolveEnter
  \/ SolveRound
  \/ HolesEnter
  \/ HoleSweep

SpecLoops == InitLoops /\ [][NextLoops]_vars

\* A turn of a loop in progress is taken: nops counts the turns.
Turn ==
  /\ pc \in {"solving", "sweeping"}
  /\ nops' = nops + 1

\* A loop that has been entered takes its turns.  The steps of SpecLoops that
\* are Turn steps are those of SolveRound and HoleSweep, which can be taken
\* whenever their loop is in progress.
FairLoops == SpecLoops /\ WF_nops(Turn)

\* The number of solved cells of s.
SolvedCount(s) ==
  Cardinality({p \in (0..(s.boardsize - 1)) \X (0..(s.boardsize - 1)) :
                 Cardinality(s.possible_values[p[1]][p[2]]) = 1})

\* The number of cells of s with two candidates or more.
OpenCount(s) ==
  Cardinality({p \in (0..(s.boardsize - 1)) \X (0..(s.boardsize - 1)) :
                 Cardinality(s.possible_values[p[1]][p[2]]) > 1})

\* C30. The changes-counter loops terminate: for every seeded grid and every
\* tier the loop of solve() is left and solve() returns, and the second loop
\* of create_holes is left; a turn of solve() after which the loop goes on
\* has solved a cell that had two candidates or more, and a sweep after which
\* the loop goes on has cleared a cell, leaving fewer solved cells.
LoopsTerminate ==
  /\ (pc = "solving") ~> (pc = "returned")
  /\ (pc = "sweeping") ~> (pc = "punched")
  /\ [][(pc = "solving" /\ pc' = "solving")
           => OpenCount(sudoku') < OpenCount(sudoku)]_vars
  /\ [][(pc = "sweeping" /\ pc' = "sweeping")
           => SolvedCount(sudoku') < SolvedCount(sudoku)]_vars

\* C30 witness: solve() has returned after three turns of its loop or more.
LoopsTerminateWitness ==
  /\ pc = "returned"
  /\ nops >= 3
  /\ nops <= OpenCount(entry) + 1
  /\ Changes(sudoku) > Changes(entry)

\* C30 witness of the sweeps: the second loop of create_holes has been left
\* after a sweep that cleared cells and a sweep that cleared none.
HoleSweepsWitness ==
  /\ pc = "punched"
  /\ nops >= 2
  /\ SolvedCount(sudoku) < SolvedCount(entry)
  /\ Changes(sudoku) = loc.changes

============================================================================
